---------------------------- MODULE Spec2Model ----------------------------
(***************************************************************************)
(* Prompt manager: the JSON API's mutation handlers (create, update,      *)
(* delete, get of a prompt) over the Domain / Subtopic / Prompt /         *)
(* PromptImage tables and the upload directory.                           *)
(*                                                                         *)
(* Strings are sequences of character codes, so that lower(), strip(),    *)
(* secure_filename() and suffix are computed and not assumed.  A request  *)
(* runs to completion in one step (one database transaction); the tables  *)
(* are the committed state.                                                *)
(***************************************************************************)
EXTENDS Integers, Sequences, FiniteSets, TLC

VARIABLES
    domains,    \* committed rows of table domains:        [id, name]
    subtopics,  \* committed rows of table subtopics:      [id, name, domain_id]
    prompts,    \* committed rows of table prompts
    images,     \* committed rows of table prompt_images:  [id, prompt_id, filename, sort_order]
    disk,       \* generated file names present in UPLOAD_FOLDER
    resp,       \* the last request and its HTTP response
    inflight    \* per worker: the request it is serving, between the
                \* resolver's Domain query and the writes that follow

vars == <<domains, subtopics, prompts, images, disk, resp, inflight>>

-----------------------------------------------------------------------------
(* Bounds of the model.                                                    *)

\* Highest primary key the model lets each table hand out.
MaxDomainId == 2
MaxSubtopicId == 2
MaxPromptId == 2
MaxImageId == 9
\* Longest batch of valid image files a request of SpecImages uploads.
MaxBatch == 9
\* Most files a failed removal may leave behind in the upload directory.
MaxOrphanFiles == 1

-----------------------------------------------------------------------------
(* Program constants.                                                      *)

MAX_IMAGES_PER_PROMPT == 8

\* 'png', 'jpg', 'jpeg', 'gif', 'webp'
ALLOWED_IMAGE_EXTENSIONS ==
    { <<112,110,103>>, <<106,112,103>>, <<106,112,101,103>>,
      <<103,105,102>>, <<119,101,98,112>> }

-----------------------------------------------------------------------------
(* Strings.                                                                *)

\* str.lower(), on the code points up to 255: 'A'..'Z' and the Latin-1
\* capitals (all of 192..222 but the multiplication sign) have a lower-case
\* form 32 further on.
Lower(s) ==
    [i \in 1..Len(s) |->
        IF s[i] \in (65..90) \cup ((192..222) \ {215}) THEN s[i] + 32 ELSE s[i]]

\* func.lower(column), evaluated by the SQLite database config.py names:
\* its built-in lower() folds the ASCII letters only.
SqlLower(s) == [i \in 1..Len(s) |-> IF s[i] \in 65..90 THEN s[i] + 32 ELSE s[i]]

\* The characters str.strip() removes: space, tab, newline.
IsSpace(c) == c \in {32, 9, 10}

RECURSIVE LStrip(_)
LStrip(s) == IF s # <<>> /\ IsSpace(Head(s)) THEN LStrip(Tail(s)) ELSE s

RECURSIVE RStrip(_)
RStrip(s) ==
    IF s # <<>> /\ IsSpace(s[Len(s)]) THEN RStrip(SubSeq(s, 1, Len(s) - 1)) ELSE s

Strip(s) == RStrip(LStrip(s))

StartsWith(s, p) == Len(s) >= Len(p) /\ SubSeq(s, 1, Len(p)) = p

\* Position of the last occurrence of character c in s, 0 when absent.
LastIndexOf(s, c) ==
    LET hits == {i \in 1..Len(s) : s[i] = c}
    IN  IF hits = {} THEN 0 ELSE CHOOSE i \in hits : \A j \in hits : j <= i

\* Path(name).suffix: the last dot and what follows it, '' when the final
\* component has no dot, starts with its only dot, or ends with a dot.
Suffix(name) ==
    LET slash == LastIndexOf(name, 47)
        base == SubSeq(name, slash + 1, Len(name))
        dot == LastIndexOf(base, 46)
    IN  IF dot <= 1 \/ dot = Len(base) THEN <<>> ELSE SubSeq(base, dot, Len(base))

\* str.lstrip('.')
RECURSIVE LStripDot(_)
LStripDot(s) == IF s # <<>> /\ Head(s) = 46 THEN LStripDot(Tail(s)) ELSE s

\* Characters werkzeug's secure_filename keeps: A-Z a-z 0-9 _ . -
IsSafeChar(c) == c \in (65..90) \cup (97..122) \cup (48..57) \cup {95, 46, 45}

\* str.strip('._')
RECURSIVE StripDotUnderscore(_)
StripDotUnderscore(s) ==
    IF s # <<>> /\ Head(s) \in {46, 95} THEN StripDotUnderscore(Tail(s))
    ELSE IF s # <<>> /\ s[Len(s)] \in {46, 95}
         THEN StripDotUnderscore(SubSeq(s, 1, Len(s) - 1))
         ELSE s

\* The words of s.split(): maximal runs of non-space characters, joined by '_'.
RECURSIVE JoinWords(_)
JoinWords(s) ==
    LET t == LStrip(s)
        spaces == {i \in 1..Len(t) : IsSpace(t[i])}
        cut == IF spaces = {} THEN Len(t) + 1
               ELSE CHOOSE i \in spaces : \A j \in spaces : i <= j
        rest == LStrip(SubSeq(t, cut, Len(t)))
    IN  IF t = <<>> THEN <<>>
        ELSE IF rest = <<>> THEN SubSeq(t, 1, cut - 1)
        ELSE SubSeq(t, 1, cut - 1) \o <<95>> \o JoinWords(rest)

\* werkzeug.utils.secure_filename on ASCII input: path separators become
\* spaces, words are joined with '_', unsafe characters are dropped and
\* leading/trailing dots and underscores are stripped.
secure_filename(name) ==
    LET sep == [i \in 1..Len(name) |-> IF name[i] \in {47, 92} THEN 32 ELSE name[i]]
        joined == JoinWords(sep)
        safe == SelectSeq(joined, IsSafeChar)
    IN  StripDotUnderscore(safe)

-----------------------------------------------------------------------------
(* Request values.  A JSON or form value is a tagged pair [t, v]:          *)
(*   absent (key not in the payload), none (JSON null), str (v: the       *)
(*   characters), bool (v: <<1>> or <<0>>), num (v: <<n>>),                *)
(*   dict (v: <<k>>, the k-th JSON object), list (v: <<k>>).               *)

Val(t, v) == [t |-> t, v |-> v]
Absent == Val("absent", <<>>)
NoneVal == Val("none", <<>>)
Str(s) == Val("str", s)
Bool(b) == Val("bool", IF b THEN <<1>> ELSE <<0>>)
Num(n) == Val("num", <<n>>)
Dict(k) == Val("dict", <<k>>)
List(k) == Val("list", <<k>>)

\* dict.get(key, default)
Get(payload, key, default) ==
    IF payload[key].t = "absent" THEN default ELSE payload[key]

\* Python truthiness of a value; the 0-th dict / list is the empty one.
Truthy(x) ==
    CASE x.t \in {"absent", "none"} -> FALSE
      [] x.t = "str" -> x.v # <<>>
      [] x.t \in {"bool", "num", "dict", "list"} -> x.v # <<0>>

\* (payload.get(key) or '').strip(): the stripped text, or a raised
\* AttributeError when the value is truthy and not a string.
TextField(payload, key) ==
    LET x == Get(payload, key, NoneVal)
    IN  IF ~Truthy(x) THEN [raised |-> FALSE, text |-> <<>>]
        ELSE IF x.t = "str" THEN [raised |-> FALSE, text |-> Strip(x.v)]
        ELSE [raised |-> TRUE, text |-> <<>>]

\* 'true', '1', 'yes', 'on'
TrueWords == { <<116,114,117,101>>, <<49>>, <<121,101,115>>, <<111,110>> }
\* 'false', '0', 'no', 'off'
FalseWords == { <<102,97,108,115,101>>, <<48>>, <<110,111>>, <<111,102,102>> }

\* The result is {TRUE}, {FALSE} or {} (None).
_normalize_bool(value) ==
    IF value.t = "bool" THEN {value.v = <<1>>}
    ELSE IF value.t = "str"
         THEN LET lowered == Lower(Strip(value.v))
              IN  IF lowered \in TrueWords THEN {TRUE}
                  ELSE IF lowered \in FalseWords THEN {FALSE}
                  ELSE {}
         ELSE {}

\* json.loads on the texts the model sends: '{}' is the empty object (the
\* 0-th dict), '{"a":["b"]}' the 1st, '[]' a list, '7' a number; any other
\* text is no JSON (ValueError).
JsonLoads(text) ==
    LET t == Strip(text)
    IN  CASE t = <<123,125>> -> [ok |-> TRUE, value |-> Dict(0)]
          [] t = <<123,34,97,34,58,91,34,98,34,93,125>> -> [ok |-> TRUE, value |-> Dict(1)]
          [] t = <<91,93>> -> [ok |-> TRUE, value |-> List(0)]
          [] t = <<55>> -> [ok |-> TRUE, value |-> Num(7)]
          [] OTHER -> [ok |-> FALSE, value |-> NoneVal]

\* (value, error): value is NoneVal or a dict, error "" when there is none.
_parse_configurable_options(raw_value) ==
    IF raw_value.t \in {"absent", "none"} \/ raw_value = Str(<<>>)
    THEN [value |-> NoneVal, error |-> ""]
    ELSE IF raw_value.t = "dict" THEN [value |-> raw_value, error |-> ""]
    ELSE IF raw_value.t = "str"
         THEN LET parsed == JsonLoads(raw_value.v)
              IN  IF ~parsed.ok
                  THEN [value |-> NoneVal, error |-> "configurable_options must be valid JSON."]
                  ELSE IF parsed.value.t = "dict"
                       THEN [value |-> parsed.value, error |-> ""]
                       ELSE [value |-> NoneVal, error |-> "configurable_options must be a JSON object."]
         ELSE [value |-> NoneVal, error |-> "configurable_options must be a JSON object."]

PayloadKeys ==
    {"title", "content", "domain_name", "subtopic_name", "is_template",
     "configurable_options"}

\* Mutant of the validation: configurable_options is not checked.
ValidationErrorsOfFiveFields(payload) ==
    {k \in {"title", "content", "domain_name", "subtopic_name"} :
        TextField(payload, k).text = <<>>}
    \cup (IF _normalize_bool(Get(payload, "is_template", Bool(FALSE))) = {}
          THEN {"is_template"} ELSE {})

\* The keys of the errors dict _validate_prompt_payload returns.
ValidationErrors(payload) ==
    {k \in {"title", "content", "domain_name", "subtopic_name"} :
        TextField(payload, k).text = <<>>}
    \cup (IF _normalize_bool(Get(payload, "is_template", Bool(FALSE))) = {}
          THEN {"is_template"} ELSE {})
    \cup (IF _parse_configurable_options(Get(payload, "configurable_options", NoneVal)).error # ""
          THEN {"configurable_options"} ELSE {})

\* _validate_prompt_payload: raised (an AttributeError out of .strip() on a
\* truthy non-string), else the error keys and the normalized fields.
_validate_prompt_payload(payload) ==
    LET nb == _normalize_bool(Get(payload, "is_template", Bool(FALSE)))
    IN  [raised |-> \E k \in {"title", "content", "domain_name", "subtopic_name"} :
                        TextField(payload, k).raised,
         errors |-> ValidationErrors(payload),
         fields |-> [title |-> TextField(payload, "title").text,
                     content |-> TextField(payload, "content").text,
                     domain_name |-> TextField(payload, "domain_name").text,
                     subtopic_name |-> TextField(payload, "subtopic_name").text,
                     is_template |-> (nb = {TRUE}),
                     configurable_options |->
                         _parse_configurable_options(
                             Get(payload, "configurable_options", NoneVal)).value]]

-----------------------------------------------------------------------------
(* The database session.  A db is the four tables as one record; a handler *)
(* works on a copy (the session) that commit makes the committed state     *)
(* and rollback discards.                                                  *)

DB == [domains |-> domains, subtopics |-> subtopics, prompts |-> prompts,
       images |-> images]

Ids(rows) == {r.id : r \in rows}

MaxOf(S) == CHOOSE x \in S : \A y \in S : y <= x

\* Integer primary key of the next inserted row (SQLite rowid: one more
\* than the largest id in the table).
NextId(rows) == IF rows = {} THEN 1 ELSE MaxOf(Ids(rows)) + 1

\* Query.first() of a table scan: the matching row with the least id.
First(rows) == CHOOSE r \in rows : \A q \in rows : r.id <= q.id

PromptOf(db, prompt_id) == CHOOSE p \in db.prompts : p.id = prompt_id

\* prompt.images, ordered by sort_order
ImagesOf(db, prompt_id) == {i \in db.images : i.prompt_id = prompt_id}

\* subtopic.prompts
PromptsOf(db, subtopic_id) == {p \in db.prompts : p.subtopic_id = subtopic_id}

\* domain.subtopics
SubtopicsOf(db, domain_id) == {s \in db.subtopics : s.domain_id = domain_id}

\* Mutant of the prompt's deletion: its images go, the row stays.
DeleteImagesOfPrompt(db, prompt_id) ==
    [db EXCEPT !.images = {i \in @ : i.prompt_id # prompt_id}]

\* db.session.delete(prompt): the row and, by cascade, its images.
DeletePromptRow(db, prompt_id) ==
    [db EXCEPT !.prompts = {p \in @ : p.id # prompt_id},
               !.images = {i \in @ : i.prompt_id # prompt_id}]

\* db.session.delete(subtopic): the row and, by cascade, its prompts.
DeleteSubtopicRow(db, subtopic_id) ==
    LET gone == Ids(PromptsOf(db, subtopic_id))
    IN  [db EXCEPT !.subtopics = {s \in @ : s.id # subtopic_id},
                   !.prompts = {p \in @ : p.id \notin gone},
                   !.images = {i \in @ : i.prompt_id \notin gone}]

\* db.session.delete(domain): the row and, by cascade, its subtopics.
DeleteDomainRow(db, domain_id) ==
    LET subs == Ids(SubtopicsOf(db, domain_id))
        gone == {p.id : p \in {q \in db.prompts : q.subtopic_id \in subs}}
    IN  [db EXCEPT !.domains = {d \in @ : d.id # domain_id},
                   !.subtopics = {s \in @ : s.id \notin subs},
                   !.prompts = {p \in @ : p.id \notin gone},
                   !.images = {i \in @ : i.prompt_id \notin gone}]

-----------------------------------------------------------------------------
(* Hierarchy resolver.                                                     *)

\* Domain.query.filter(func.lower(Domain.name) == domain_name.lower())
DomainMatches(db, domain_name) ==
    {d \in db.domains : SqlLower(d.name) = Lower(domain_name)}

\* Subtopic.query.filter(Subtopic.domain_id == domain.id,
\*                       func.lower(Subtopic.name) == subtopic_name.lower())
SubtopicMatches(db, domain_id, subtopic_name) ==
    {s \in db.subtopics :
        s.domain_id = domain_id /\ SqlLower(s.name) = Lower(subtopic_name)}

\* The resolver from the result found of its Domain query on: the session
\* after it ran, and the ids of the pair it returns.
\* raised: the flush of a new Domain whose name another row already has
\* breaks the unique constraint on Domain.name (IntegrityError).
ResolveAfterDomainQuery(found, db, domain_name, subtopic_name) ==
    LET raised == found = {} /\ \E d \in db.domains : d.name = domain_name
        domain_id == IF found = {} THEN NextId(db.domains) ELSE First(found).id
        db1 == IF found = {}
               THEN [db EXCEPT !.domains = @ \cup {[id |-> domain_id, name |-> domain_name]}]
               ELSE db
        subs == SubtopicMatches(db1, domain_id, subtopic_name)
        subtopic_id == IF subs = {} THEN NextId(db1.subtopics) ELSE First(subs).id
        db2 == IF subs = {}
               THEN [db1 EXCEPT !.subtopics = @ \cup
                        {[id |-> subtopic_id, name |-> subtopic_name,
                          domain_id |-> domain_id]}]
               ELSE db1
    IN  [raised |-> raised, db |-> db2, domain_id |-> domain_id,
         subtopic_id |-> subtopic_id]

\* The resolver run without interruption: the query and what follows it
\* see the same tables.
_get_or_create_domain_and_subtopic(db, domain_name, subtopic_name) ==
    ResolveAfterDomainQuery(DomainMatches(db, domain_name), db, domain_name,
                            subtopic_name)

-----------------------------------------------------------------------------
(* Image attachment.  An uploaded file is [filename, mimetype]; a          *)
(* generated name is [token, ext]: the uuid4 hex as a number no other      *)
(* name carries, and the extension kept from the upload.                   *)

\* 'image/'
ImagePrefix == <<105,109,97,103,101,47>>

_is_allowed_image(file_storage) ==
    LET filename == secure_filename(file_storage.filename)
        extension == LStripDot(Lower(Suffix(filename)))
    IN  IF filename = <<>> \/ extension \notin ALLOWED_IMAGE_EXTENSIONS
        THEN FALSE
        ELSE StartsWith(Lower(file_storage.mimetype), ImagePrefix)

\* [f for f in files if f and getattr(f, 'filename', '')]
CleanedFiles(files) == SelectSeq(files, LAMBDA f : f.filename # <<>>)

\* Mutants of the limit check: the images the prompt already has are not
\* counted, and a batch that reaches the limit exactly is refused.
OverImageLimitOfBatch(existing_count, n_new) ==
    n_new > MAX_IMAGES_PER_PROMPT

OverImageLimitInclusive(existing_count, n_new) ==
    existing_count + n_new >= MAX_IMAGES_PER_PROMPT

\* existing_count + len(cleaned_files) > MAX_IMAGES_PER_PROMPT
OverImageLimit(existing_count, n_new) ==
    existing_count + n_new > MAX_IMAGES_PER_PROMPT

\* uuid4().hex for the index-th (from 1) file of a batch: a token that no
\* stored name carries; the numbers above those in use stand for them.
FreshToken(used, index) ==
    (IF used = {} THEN 0 ELSE MaxOf(used)) + index

\* The extension of the generated name: suffix of the secured name, or of
\* the raw name when that is empty.
GeneratedExt(filename) ==
    LET original_ext == Suffix(secure_filename(filename))
        fallback_ext == Suffix(filename)
    IN  IF original_ext # <<>> THEN original_ext ELSE fallback_ext

\* Mutant of the sort_order: every batch is numbered from zero.
SortOrderOfBatch(existing_count, index) == index - 1

\* Mutant of the sort_order: the new images are numbered from one past the
\* number of images the prompt has.
SortOrderFromOne(existing_count, index) == existing_count + index

\* sort_order of the index-th (from 1) new image
SortOrderFor(existing_count, index) == existing_count + (index - 1)

\* Mutant of _attach_images: each file is checked when its turn to be saved
\* comes, so the files before the first invalid one are already written.
AttachCheckingWhileSaving(db, dir, prompt_id, files) ==
    LET cleaned_files == CleanedFiles(files)
        existing_count == Cardinality(ImagesOf(db, prompt_id))
        used == {n.token : n \in dir} \cup {i.filename.token : i \in db.images}
        first_id == NextId(db.images)
        invalid == {k \in 1..Len(cleaned_files) : ~_is_allowed_image(cleaned_files[k])}
        saved == {k \in 1..Len(cleaned_files) : \A j \in invalid : k < j}
        rows == {[id |-> first_id + (k - 1),
                  prompt_id |-> prompt_id,
                  filename |-> [token |-> FreshToken(used, k),
                                ext |-> GeneratedExt(cleaned_files[k].filename)],
                  sort_order |-> SortOrderFor(existing_count, k)] : k \in saved}
    IN  IF cleaned_files = <<>> THEN [errors |-> {}, db |-> db, dir |-> dir]
        ELSE IF OverImageLimit(existing_count, Len(cleaned_files))
        THEN [errors |-> {"images"}, db |-> db, dir |-> dir]
        ELSE [errors |-> IF invalid = {} THEN {} ELSE {"images"},
              db |-> [db EXCEPT !.images = @ \cup rows],
              dir |-> dir \cup {r.filename : r \in rows}]

\* _attach_images with existing_count the length of prompt.images, the
\* collection loaded with the prompt: the error keys (empty on success),
\* the session and the upload directory afterwards.
AttachToLoaded(existing_count, db, dir, prompt_id, files) ==
    LET cleaned_files == CleanedFiles(files)
        used == {n.token : n \in dir} \cup {i.filename.token : i \in db.images}
        first_id == NextId(db.images)
        rows == {[id |-> first_id + (k - 1),
                  prompt_id |-> prompt_id,
                  filename |-> [token |-> FreshToken(used, k),
                                ext |-> GeneratedExt(cleaned_files[k].filename)],
                  sort_order |-> SortOrderFor(existing_count, k)] :
                    k \in 1..Len(cleaned_files)}
    IN  IF cleaned_files = <<>> THEN [errors |-> {}, db |-> db, dir |-> dir]
        ELSE IF OverImageLimit(existing_count, Len(cleaned_files))
        THEN [errors |-> {"images"}, db |-> db, dir |-> dir]
        ELSE IF \E k \in 1..Len(cleaned_files) : ~_is_allowed_image(cleaned_files[k])
        THEN [errors |-> {"images"}, db |-> db, dir |-> dir]
        ELSE [errors |-> {},
              db |-> [db EXCEPT !.images = @ \cup rows],
              dir |-> dir \cup {r.filename : r \in rows}]

\* _attach_images for a prompt whose images are loaded from db
_attach_images(db, dir, prompt_id, files) ==
    AttachToLoaded(Cardinality(ImagesOf(db, prompt_id)), db, dir, prompt_id, files)

\* _remove_image_file: unlink the file; a missing file (FileNotFoundError)
\* and a failed removal (OSError, for the names in failing) leave the
\* directory as it is.
_remove_image_file(dir, filename, failing) ==
    IF filename \notin dir THEN dir
    ELSE IF filename \in failing THEN dir
    ELSE dir \ {filename}

-----------------------------------------------------------------------------
(* Serialization.                                                          *)

\* sorted(images, key=lambda img: img.sort_order), as [id, filename]
RECURSIVE SortedImages(_)
SortedImages(rows) ==
    IF rows = {} THEN <<>>
    ELSE LET least == CHOOSE r \in rows : \A q \in rows :
                         \/ r.sort_order < q.sort_order
                         \/ (r.sort_order = q.sort_order /\ r.id <= q.id)
         IN  <<[id |-> least.id, filename |-> least.filename]>>
                 \o SortedImages(rows \ {least})

_serialize_images(db, prompt_id) == SortedImages(ImagesOf(db, prompt_id))

\* subtopic = prompt.subtopic; domain = subtopic.domain if subtopic is not
\* None else None.  A many-to-one whose row is not stored loads as None,
\* and the None of an id is written 0, that of a name the empty string
\* (no stored row has either).
_serialize_prompt(db, prompt_id) ==
    LET prompt == PromptOf(db, prompt_id)
        subtopics_found == {x \in db.subtopics : x.id = prompt.subtopic_id}
        domains_found == {d \in db.domains :
                             \E x \in subtopics_found : d.id = x.domain_id}
    IN  [id |-> prompt.id, title |-> prompt.title, content |-> prompt.content,
         is_template |-> prompt.is_template,
         configurable_options |-> prompt.configurable_options,
         subtopic_id |-> IF subtopics_found = {} THEN 0 ELSE First(subtopics_found).id,
         subtopic_name |-> IF subtopics_found = {} THEN <<>> ELSE First(subtopics_found).name,
         domain_id |-> IF domains_found = {} THEN 0 ELSE First(domains_found).id,
         domain_name |-> IF domains_found = {} THEN <<>> ELSE First(domains_found).name,
         images |-> _serialize_images(db, prompt_id)]

\* The JSON body of GET /api/prompts/<id>
PromptDetailBody(db, prompt_id) ==
    LET prompt == PromptOf(db, prompt_id)
    IN  [id |-> prompt.id, title |-> prompt.title, content |-> prompt.content,
         is_template |-> prompt.is_template,
         configurable_options |-> prompt.configurable_options,
         images |-> _serialize_images(db, prompt_id)]

-----------------------------------------------------------------------------
(* Requests and responses.  A request is [is_json, payload, files]; a      *)
(* payload maps every key of PayloadKeys to a value (Absent when the key   *)
(* is not sent).                                                           *)

Payload(title, content, domain_name, subtopic_name, is_template, options) ==
    [title |-> title, content |-> content, domain_name |-> domain_name,
     subtopic_name |-> subtopic_name, is_template |-> is_template,
     configurable_options |-> options]

JsonRequest(payload) == [is_json |-> TRUE, payload |-> payload, files |-> <<>>]

FormRequest(payload, files) ==
    [is_json |-> FALSE, payload |-> payload, files |-> files]

\* A request with no body (GET, DELETE).
NoRequest == JsonRequest(Payload(Absent, Absent, Absent, Absent, Absent, Absent))

\* _collect_payload_and_files: a JSON request carries no files; a form
\* request keeps the files that are truthy (a non-empty filename).
_collect_payload_and_files(request) ==
    IF request.is_json
    THEN [payload |-> request.payload, files |-> <<>>]
    ELSE [payload |-> request.payload, files |-> CleanedFiles(request.files)]

\* What resp records of a request: the operation, the prompt id addressed
\* (or created), the request, the status code, the keys of the errors
\* object and the JSON body (a set: empty, or the one object returned).
Response(op, id, request, status, errors, body) ==
    [op |-> op, id |-> id, request |-> request, status |-> status,
     errors |-> errors, body |-> body]

\* db.session.get(Prompt, prompt_id) is not None
PromptExists(db, prompt_id) == \E p \in db.prompts : p.id = prompt_id

\* db.session.commit(): the session becomes the committed tables.
Commit(committed, session) == session

\* Mutant of the rollback: the session's pending changes are kept.
RollbackKeepingSession(committed, session) == session

\* db.session.rollback(): the session is discarded.
Rollback(committed, session) == committed

SetTables(db) ==
    /\ domains' = db.domains
    /\ subtopics' = db.subtopics
    /\ prompts' = db.prompts
    /\ images' = db.images

\* The ids a table may hand out in the model.
WithinBounds(db) ==
    /\ \A d \in db.domains : d.id <= MaxDomainId
    /\ \A x \in db.subtopics : x.id <= MaxSubtopicId
    /\ \A p \in db.prompts : p.id <= MaxPromptId
    /\ \A i \in db.images : i.id <= MaxImageId

\* Files on disk that no PromptImage row names.
OrphanFiles(db, dir) == dir \ {i.filename : i \in db.images}

-----------------------------------------------------------------------------
(* The handlers, as functions of the committed tables, the upload          *)
(* directory and the request: the tables, the directory and the response   *)
(* afterwards.                                                             *)

\* errors, fields = _validate_prompt_payload(payload): the fields
RequestFields(request) ==
    _validate_prompt_payload(_collect_payload_and_files(request).payload).fields

\* Mutant of the insert: the prompt is stored with the columns' defaults.
AddPromptWithDefaults(db, prompt_id, subtopic_id, fields) ==
    [db EXCEPT !.prompts = @ \cup
        {[id |-> prompt_id, title |-> fields.title, content |-> fields.content,
          is_template |-> FALSE, configurable_options |-> NoneVal,
          subtopic_id |-> subtopic_id]}]

\* Prompt(title=..., subtopic=subtopic, ...); db.session.add(prompt)
AddPrompt(db, prompt_id, subtopic_id, fields) ==
    [db EXCEPT !.prompts = @ \cup
        {[id |-> prompt_id, title |-> fields.title, content |-> fields.content,
          is_template |-> fields.is_template,
          configurable_options |-> fields.configurable_options,
          subtopic_id |-> subtopic_id]}]

\* Mutant of the update's assignments: the prompt stays in its Subtopic.
AssignPromptFields(db, prompt_id, subtopic_id, fields) ==
    [db EXCEPT !.prompts = {IF p.id = prompt_id
                            THEN [id |-> p.id, title |-> fields.title,
                                  content |-> fields.content,
                                  is_template |-> fields.is_template,
                                  configurable_options |-> fields.configurable_options,
                                  subtopic_id |-> p.subtopic_id]
                            ELSE p : p \in @}]

\* Mutant of the update's assignments: the Subtopic the prompt leaves is
\* deleted when the prompt was its last one.
AssignPromptAndPrune(db, prompt_id, subtopic_id, fields) ==
    LET old == PromptOf(db, prompt_id).subtopic_id
        db1 == [db EXCEPT !.prompts =
                   {IF p.id = prompt_id
                    THEN [id |-> p.id, title |-> fields.title,
                          content |-> fields.content,
                          is_template |-> fields.is_template,
                          configurable_options |-> fields.configurable_options,
                          subtopic_id |-> subtopic_id]
                    ELSE p : p \in @}]
    IN  IF PromptsOf(db1, old) = {} THEN DeleteSubtopicRow(db1, old) ELSE db1

\* Mutant of the update's assignments: is_template and configurable_options
\* are overwritten only by a value other than their default.
AssignPromptMerging(db, prompt_id, subtopic_id, fields) ==
    [db EXCEPT !.prompts = {IF p.id = prompt_id
                            THEN [id |-> p.id, title |-> fields.title,
                                  content |-> fields.content,
                                  is_template |-> fields.is_template \/ p.is_template,
                                  configurable_options |->
                                      IF fields.configurable_options = NoneVal
                                      THEN p.configurable_options
                                      ELSE fields.configurable_options,
                                  subtopic_id |-> subtopic_id]
                            ELSE p : p \in @}]

\* prompt.title = ...; prompt.content = ...; prompt.subtopic = subtopic; ...
AssignPrompt(db, prompt_id, subtopic_id, fields) ==
    [db EXCEPT !.prompts = {IF p.id = prompt_id
                            THEN [id |-> p.id, title |-> fields.title,
                                  content |-> fields.content,
                                  is_template |-> fields.is_template,
                                  configurable_options |-> fields.configurable_options,
                                  subtopic_id |-> subtopic_id]
                            ELSE p : p \in @}]

\* POST /api/prompts, with found the result of the resolver's Domain query
\* and db the tables as they are when the handler goes on from there.
CreatePromptAfterQuery(found, db, dir, request) ==
    LET c == _collect_payload_and_files(request)
        v == _validate_prompt_payload(c.payload)
        r == ResolveAfterDomainQuery(
                 found, db, v.fields.domain_name, v.fields.subtopic_name)
        prompt_id == NextId(r.db.prompts)
        session == AddPrompt(r.db, prompt_id, r.subtopic_id, v.fields)
        a == _attach_images(session, dir, prompt_id, c.files)
    IN  IF v.raised
        THEN [db |-> db, dir |-> dir, resp |-> Response("create", 0, request, 500, {}, {})]
        ELSE IF v.errors # {}
        THEN [db |-> db, dir |-> dir,
              resp |-> Response("create", 0, request, 400, v.errors, {})]
        ELSE IF r.raised
        THEN [db |-> Rollback(db, r.db), dir |-> dir,
              resp |-> Response("create", 0, request, 500, {}, {})]
        ELSE IF a.errors # {}
        THEN [db |-> Rollback(db, a.db), dir |-> a.dir,
              resp |-> Response("create", 0, request, 400, v.errors \cup a.errors, {})]
        ELSE [db |-> Commit(db, a.db), dir |-> a.dir,
              resp |-> Response("create", prompt_id, request, 201, {},
                                {_serialize_prompt(a.db, prompt_id)})]

\* POST /api/prompts, run without interruption
CreatePromptResult(db, dir, request) ==
    CreatePromptAfterQuery(DomainMatches(db, RequestFields(request).domain_name),
                           db, dir, request)

\* Mutant of update_prompt: the payload is validated and the names are
\* resolved before the prompt is looked up.
UpdateCheckingExistenceLast(found, existing_count, db, dir, prompt_id, request) ==
    LET c == _collect_payload_and_files(request)
        v == _validate_prompt_payload(c.payload)
        r == ResolveAfterDomainQuery(
                 found, db, v.fields.domain_name, v.fields.subtopic_name)
    IN  IF v.raised \/ r.raised
        THEN [db |-> db, dir |-> dir,
              resp |-> Response("update", prompt_id, request, 500, {}, {})]
        ELSE IF v.errors # {}
        THEN [db |-> db, dir |-> dir,
              resp |-> Response("update", prompt_id, request, 400, v.errors, {})]
        ELSE IF ~PromptExists(db, prompt_id)
        THEN [db |-> Commit(db, r.db), dir |-> dir,
              resp |-> Response("update", prompt_id, request, 404, {}, {})]
        ELSE [db |-> Commit(db, AssignPrompt(r.db, prompt_id, r.subtopic_id, v.fields)),
              dir |-> dir,
              resp |-> Response("update", prompt_id, request, 200, {},
                                {_serialize_prompt(
                                    AssignPrompt(r.db, prompt_id, r.subtopic_id, v.fields),
                                    prompt_id)})]

\* PUT /api/prompts/<prompt_id>, with existing_count the number of images
\* loaded with the prompt, found the result of the resolver's Domain query
\* and db the tables as they are when the handler goes on.
UpdatePromptAfterLoad(found, existing_count, db, dir, prompt_id, request) ==
    LET c == _collect_payload_and_files(request)
        v == _validate_prompt_payload(c.payload)
        r == ResolveAfterDomainQuery(
                 found, db, v.fields.domain_name, v.fields.subtopic_name)
        session == AssignPrompt(r.db, prompt_id, r.subtopic_id, v.fields)
        a == AttachToLoaded(existing_count, session, dir, prompt_id, c.files)
    IN  IF ~PromptExists(db, prompt_id)
        THEN [db |-> db, dir |-> dir,
              resp |-> Response("update", prompt_id, request, 404, {}, {})]
        ELSE IF v.raised
        THEN [db |-> db, dir |-> dir,
              resp |-> Response("update", prompt_id, request, 500, {}, {})]
        ELSE IF v.errors # {}
        THEN [db |-> db, dir |-> dir,
              resp |-> Response("update", prompt_id, request, 400, v.errors, {})]
        ELSE IF r.raised
        THEN [db |-> Rollback(db, r.db), dir |-> dir,
              resp |-> Response("update", prompt_id, request, 500, {}, {})]
        ELSE IF a.errors # {}
        THEN [db |-> Rollback(db, a.db), dir |-> a.dir,
              resp |-> Response("update", prompt_id, request, 400, v.errors \cup a.errors, {})]
        ELSE [db |-> Commit(db, a.db), dir |-> a.dir,
              resp |-> Response("update", prompt_id, request, 200, {},
                                {_serialize_prompt(a.db, prompt_id)})]

\* PUT /api/prompts/<prompt_id>, with the prompt loaded from db
UpdatePromptAfterQuery(found, db, dir, prompt_id, request) ==
    UpdatePromptAfterLoad(found, Cardinality(ImagesOf(db, prompt_id)),
                          db, dir, prompt_id, request)

\* PUT /api/prompts/<prompt_id>, run without interruption
UpdatePromptResult(db, dir, prompt_id, request) ==
    UpdatePromptAfterQuery(DomainMatches(db, RequestFields(request).domain_name),
                           db, dir, prompt_id, request)

\* Mutant of the removal loop: it stops before the last image.
RemoveImageFilesButOne(dir, names, failing) ==
    IF names = {} THEN dir
    ELSE dir \ ((names \ {CHOOSE n \in names : TRUE}) \ failing)

\* for image in list(prompt.images): _remove_image_file(image.filename)
RECURSIVE RemoveImageFiles(_, _, _)
RemoveImageFiles(dir, names, failing) ==
    IF names = {} THEN dir
    ELSE LET n == CHOOSE x \in names : TRUE
         IN  RemoveImageFiles(_remove_image_file(dir, n, failing),
                              names \ {n}, failing)

\* Mutants of the pruning step: no pruning at all, and a Domain deleted
\* with its pruned Subtopic whether or not it has other Subtopics.
PruneNothing(db, subtopic_id, domain_id) == db

PruneDomainUnchecked(db, subtopic_id, domain_id) ==
    IF PromptsOf(db, subtopic_id) = {}
    THEN DeleteDomainRow(DeleteSubtopicRow(db, subtopic_id), domain_id)
    ELSE db

\* Mutant of the pruning step: the Subtopic's row is deleted, and that of
\* its Domain, while prompts may still be bound to it.
PruneRowsUnchecked(db, subtopic_id, domain_id) ==
    [db EXCEPT !.subtopics = {s \in @ : s.id # subtopic_id},
               !.domains = {d \in @ : d.id # domain_id}]

\* Mutant of the pruning step: every Subtopic without prompts is deleted.
PruneAllEmptySubtopics(db, subtopic_id, domain_id) ==
    [db EXCEPT !.subtopics = {x \in @ : PromptsOf(db, x.id) # {}}]

\* The pruning step of delete_prompt, on the session in which the prompt
\* row is already deleted and flushed: the emptiness of subtopic.prompts
\* and of domain.subtopics is read after the flush, as
\* test_delete_prompt_also_deletes_empty_parents expects.
PruneEmptyParents(db, subtopic_id, domain_id) ==
    IF PromptsOf(db, subtopic_id) = {}
    THEN LET db1 == DeleteSubtopicRow(db, subtopic_id)
         IN  IF SubtopicsOf(db1, domain_id) = {}
             THEN DeleteDomainRow(db1, domain_id)
             ELSE db1
    ELSE db

\* Mutant of delete_prompt: an OSError of a file removal aborts the request.
DeletePromptAbortingOnOSError(db, dir, prompt_id, failing, commit_fails) ==
    LET prompt == PromptOf(db, prompt_id)
        subtopic == CHOOSE x \in db.subtopics : x.id = prompt.subtopic_id
        names == {i.filename : i \in ImagesOf(db, prompt_id)}
        dir1 == RemoveImageFiles(dir, names, failing)
        db1 == DeletePromptRow(db, prompt_id)
        db2 == PruneEmptyParents(db1, subtopic.id, subtopic.domain_id)
    IN  IF ~PromptExists(db, prompt_id)
        THEN [db |-> db, dir |-> dir,
              resp |-> Response("delete", prompt_id, NoRequest, 404, {}, {})]
        ELSE IF commit_fails \/ (names \cap dir) \cap failing # {}
        THEN [db |-> Rollback(db, db2), dir |-> dir1,
              resp |-> Response("delete", prompt_id, NoRequest, 500, {}, {})]
        ELSE [db |-> Commit(db, db2), dir |-> dir1,
              resp |-> Response("delete", prompt_id, NoRequest, 204, {}, {})]

\* DELETE /api/prompts/<prompt_id>; failing: the file names whose removal
\* ends in an OSError; commit_fails: the flush or commit of the deletion
\* raises, which the blueprint's handler answers with 500 and which leaves
\* the tables as committed before, after the files were removed.
DeletePromptResult(db, dir, prompt_id, failing, commit_fails) ==
    LET prompt == PromptOf(db, prompt_id)
        subtopic == CHOOSE x \in db.subtopics : x.id = prompt.subtopic_id
        dir1 == RemoveImageFiles(
                    dir, {i.filename : i \in ImagesOf(db, prompt_id)}, failing)
        db1 == DeletePromptRow(db, prompt_id)
        db2 == PruneEmptyParents(db1, subtopic.id, subtopic.domain_id)
    IN  IF ~PromptExists(db, prompt_id)
        THEN [db |-> db, dir |-> dir,
              resp |-> Response("delete", prompt_id, NoRequest, 404, {}, {})]
        ELSE IF commit_fails
        THEN [db |-> Rollback(db, db2), dir |-> dir1,
              resp |-> Response("delete", prompt_id, NoRequest, 500, {}, {})]
        ELSE [db |-> Commit(db, db2), dir |-> dir1,
              resp |-> Response("delete", prompt_id, NoRequest, 204, {}, {})]

\* GET /api/prompts/<prompt_id>
PromptDetailResult(db, dir, prompt_id) ==
    IF ~PromptExists(db, prompt_id)
    THEN [db |-> db, dir |-> dir,
          resp |-> Response("get", prompt_id, NoRequest, 404, {}, {})]
    ELSE [db |-> db, dir |-> dir,
          resp |-> Response("get", prompt_id, NoRequest, 200, {},
                            {PromptDetailBody(db, prompt_id)})]

\* SQLite's LIKE: '%' (37) in the pattern stands for any run of characters,
\* '_' (95) for any one character, and any other character for itself,
\* the ASCII letters without regard to case.
RECURSIVE SqlLike(_, _)
SqlLike(text, pattern) ==
    IF pattern = <<>> THEN text = <<>>
    ELSE IF Head(pattern) = 37
         THEN \/ SqlLike(text, Tail(pattern))
              \/ text # <<>> /\ SqlLike(Tail(text), pattern)
         ELSE /\ text # <<>>
              /\ \/ Head(pattern) = 95
                 \/ SqlLower(<<Head(pattern)>>) = SqlLower(<<Head(text)>>)
              /\ SqlLike(Tail(text), Tail(pattern))

\* ORDER BY column ASC under SQLite's BINARY collation: the texts compared
\* byte by byte in UTF-8, which orders them as their code points do.
RECURSIVE BinaryLeq(_, _)
BinaryLeq(a, b) ==
    IF a = <<>> THEN TRUE
    ELSE IF b = <<>> THEN FALSE
    ELSE IF Head(a) # Head(b) THEN Head(a) < Head(b)
    ELSE BinaryLeq(Tail(a), Tail(b))

\* The orders in which a query may return rows sorted by key, a function
\* from the rows to texts; rows with equal keys come in any order.
Orderings(rows, key) ==
    {s \in [1..Cardinality(rows) -> rows] :
        /\ \A i, j \in 1..Cardinality(rows) : s[i] = s[j] => i = j
        /\ \A i, j \in 1..Cardinality(rows) : i < j => BinaryLeq(key[s[i]], key[s[j]])}

\* A JSON array as the body of a response.
JsonArray(items) == [items |-> items]

\* The query string of GET /api/search; q is Absent or a text.
QueryRequest(q) == [args |-> [q |-> q]]

\* request.args.get('q', '', type=str)
QueryArg(request) == IF request.args.q.t = "str" THEN request.args.q.v ELSE <<>>

\* The rows the filter of search_prompts keeps:
\* func.lower(title).like(lowered) or func.lower(content).like(lowered).
SearchMatches(db, keyword) ==
    LET lowered == <<37>> \o Lower(keyword) \o <<37>>
    IN  {p \in db.prompts : \/ SqlLike(SqlLower(p.title), lowered)
                            \/ SqlLike(SqlLower(p.content), lowered)}

\* GET /api/search: the results the handler may answer with, one for each
\* order the query may return the rows in.
SearchResults(db, dir, request) ==
    LET keyword == Strip(QueryArg(request))
        found == SearchMatches(db, keyword)
    IN  IF keyword = <<>>
        THEN {[db |-> db, dir |-> dir,
               resp |-> Response("search", 0, request, 200, {}, {JsonArray(<<>>)})]}
        ELSE {[db |-> db, dir |-> dir,
               resp |-> Response("search", 0, request, 200, {},
                           {JsonArray([i \in 1..Len(s) |-> _serialize_prompt(db, s[i].id)])})] :
                 s \in Orderings(found, [p \in found |-> p.title])}

\* One choice for every key of F, a function from keys to sets.
Choices(F) ==
    {f \in [DOMAIN F -> UNION {F[k] : k \in DOMAIN F}] : \A k \in DOMAIN F : f[k] \in F[k]}

\* Mutant of the sort key: the text as it is stored.
SortKeyVerbatim(text) == text

\* key=lambda sub: sub.name.lower(), key=lambda prompt: prompt.title.lower()
SortKey(text) == Lower(text)

\* build_structure_payload: the payloads it may return, one for each order
\* in which rows with equal sort keys may come.
build_structure_payload(db) ==
    LET subs(d) == SubtopicsOf(db, d.id)
        domain_orders == Orderings(db.domains, [d \in db.domains |-> d.name])
        subtopic_orders ==
            Choices([d \in db.domains |->
                        Orderings(subs(d), [x \in subs(d) |-> SortKey(x.name)])])
        prompt_orders ==
            Choices([x \in db.subtopics |->
                        Orderings(PromptsOf(db, x.id),
                                  [p \in PromptsOf(db, x.id) |-> SortKey(p.title)])])
        prompts_data(ps) == [i \in 1..Len(ps) |-> [id |-> ps[i].id, title |-> ps[i].title]]
        subtopics_data(xs, po) ==
            [i \in 1..Len(xs) |-> [id |-> xs[i].id, name |-> xs[i].name,
                                   prompts |-> prompts_data(po[xs[i]])]]
    IN  {[i \in 1..Len(ds) |-> [id |-> ds[i].id, name |-> ds[i].name,
                                subtopics |-> subtopics_data(so[ds[i]], po)]] :
            ds \in domain_orders, so \in subtopic_orders, po \in prompt_orders}

\* GET /api/structure
StructureResults(db, dir) ==
    {[db |-> db, dir |-> dir,
      resp |-> Response("structure", 0, NoRequest, 200, {}, {JsonArray(payload)})] :
        payload \in build_structure_payload(db)}

-----------------------------------------------------------------------------
(* Actions: one request, run to completion.                                *)

\* The step a handler's result makes, within the model's id bounds.
Apply(o) ==
    /\ WithinBounds(o.db)
    /\ SetTables(o.db)
    /\ disk' = o.dir
    /\ resp' = o.resp

create_prompt(request) ==
    /\ request.is_json => request.files = <<>>
    /\ Apply(CreatePromptResult(DB, disk, request))
    /\ UNCHANGED inflight

update_prompt(prompt_id, request) ==
    /\ request.is_json => request.files = <<>>
    /\ Apply(UpdatePromptResult(DB, disk, prompt_id, request))
    /\ UNCHANGED inflight

delete_prompt(prompt_id, failing, commit_fails) ==
    /\ failing \subseteq {i.filename : i \in ImagesOf(DB, prompt_id)}
    /\ Cardinality(OrphanFiles(
           DeletePromptResult(DB, disk, prompt_id, failing, commit_fails).db,
           DeletePromptResult(DB, disk, prompt_id, failing, commit_fails).dir))
           <= MaxOrphanFiles
    /\ Apply(DeletePromptResult(DB, disk, prompt_id, failing, commit_fails))
    /\ UNCHANGED inflight

prompt_detail(prompt_id) ==
    /\ prompt_id \in Nat
    /\ Apply(PromptDetailResult(DB, disk, prompt_id))
    /\ UNCHANGED inflight

search_prompts(request) ==
    /\ \E o \in SearchResults(DB, disk, request) : Apply(o)
    /\ UNCHANGED inflight

structure ==
    /\ \E o \in StructureResults(DB, disk) : Apply(o)
    /\ UNCHANGED inflight

\* The workers that serve requests at the same time, and a worker that
\* serves none.
Workers == {"w1", "w2"}
Idle == [pc |-> "idle", op |-> "none", id |-> 0, request |-> NoRequest, found |-> {}]

\* A worker takes a create or update request and runs its handler up to
\* the resolver's Domain query, whose result it holds with the number of
\* images loaded with the prompt; the request that does not get that far
\* (404, validation errors) is answered at once.
begin_request(w, op, prompt_id, request) ==
    LET v == _validate_prompt_payload(_collect_payload_and_files(request).payload)
    IN  /\ inflight[w].pc = "idle"
        /\ request.is_json => request.files = <<>>
        /\ IF \/ op = "update" /\ ~PromptExists(DB, prompt_id)
              \/ v.raised
              \/ v.errors # {}
           THEN /\ Apply(IF op = "create" THEN CreatePromptResult(DB, disk, request)
                         ELSE UpdatePromptResult(DB, disk, prompt_id, request))
                /\ UNCHANGED inflight
           ELSE /\ inflight' = [inflight EXCEPT ![w] =
                       [pc |-> "queried", op |-> op, id |-> prompt_id,
                        request |-> request,
                        found |-> DomainMatches(DB, v.fields.domain_name),
                        loaded |-> Cardinality(ImagesOf(DB, prompt_id))]]
                /\ UNCHANGED <<domains, subtopics, prompts, images, disk, resp>>

\* The worker goes on from the Domain query to the end of the handler: the
\* inserts, the prompt's write and the commit are one write transaction of
\* the database, on the tables as they are committed by now.
finish_request(w) ==
    LET q == inflight[w]
    IN  /\ q.pc = "queried"
        /\ Apply(IF q.op = "create"
                 THEN CreatePromptAfterQuery(q.found, DB, disk, q.request)
                 ELSE UpdatePromptAfterLoad(q.found, q.loaded, DB, disk, q.id, q.request))
        /\ inflight' = [inflight EXCEPT ![w] = Idle]

\* The workers whose transaction holds the database's write lock: SQLite
\* gives it to the transaction that writes first (the flush of the deleted
\* prompt) and takes it back at commit or rollback.
LockHolders == {w \in Workers : inflight[w].pc \in {"check_subtopic", "check_domain", "commit"}}

\* Mutant of the step after the Subtopic check: the Domain is examined
\* whether or not the Subtopic was pruned.
AfterSubtopicCheckAlways(pruned) == "check_domain"

\* if subtopic and not subtopic.prompts: ... if domain and not domain.subtopics
AfterSubtopicCheck(pruned) == IF pruned THEN "check_domain" ELSE "commit"

\* DELETE /api/prompts/<prompt_id>, step by step.  The worker loads the
\* prompt (404 when there is none), its Subtopic, Domain and images.
delete_load(w, prompt_id) ==
    /\ inflight[w].pc = "idle"
    /\ IF ~PromptExists(DB, prompt_id)
       THEN /\ Apply(DeletePromptResult(DB, disk, prompt_id, {}, FALSE))
            /\ UNCHANGED inflight
       ELSE /\ inflight' = [inflight EXCEPT ![w] =
                   [pc |-> "remove_files", op |-> "delete", id |-> prompt_id,
                    request |-> NoRequest, found |-> {},
                    subtopic_id |-> PromptOf(DB, prompt_id).subtopic_id,
                    domain_id |-> (CHOOSE x \in subtopics :
                                      x.id = PromptOf(DB, prompt_id).subtopic_id).domain_id,
                    names |-> {i.filename : i \in ImagesOf(DB, prompt_id)},
                    session |-> DB]]
            /\ UNCHANGED <<domains, subtopics, prompts, images, disk, resp>>

\* list(prompt.images) of the worker that is about to remove the files
LoadedNames(w) == IF inflight[w].pc = "remove_files" THEN inflight[w].names ELSE {}

\* for image in list(prompt.images): _remove_image_file(image.filename)
delete_remove_files(w, failing) ==
    /\ inflight[w].pc = "remove_files"
    /\ failing \subseteq LoadedNames(w)
    /\ disk' = RemoveImageFiles(disk, inflight[w].names, failing)
    /\ inflight' = [inflight EXCEPT ![w].pc = "delete_prompt"]
    /\ UNCHANGED <<domains, subtopics, prompts, images, resp>>

\* db.session.delete(prompt); db.session.flush(): the transaction's first
\* write, on the tables as they are committed by now.
delete_flush_prompt(w) ==
    /\ inflight[w].pc = "delete_prompt"
    /\ LockHolders = {}
    /\ inflight' = [inflight EXCEPT ![w].pc = "check_subtopic",
                                    ![w].session = DeletePromptRow(DB, inflight[w].id)]
    /\ UNCHANGED <<domains, subtopics, prompts, images, disk, resp>>

\* if subtopic and not subtopic.prompts: db.session.delete(subtopic); flush
delete_check_subtopic(w) ==
    LET q == inflight[w]
        pruned == PromptsOf(q.session, q.subtopic_id) = {}
    IN  /\ q.pc = "check_subtopic"
        /\ inflight' = [inflight EXCEPT
               ![w].pc = AfterSubtopicCheck(pruned),
               ![w].session = IF pruned THEN DeleteSubtopicRow(q.session, q.subtopic_id)
                              ELSE q.session]
        /\ UNCHANGED <<domains, subtopics, prompts, images, disk, resp>>

\* if domain and not domain.subtopics: db.session.delete(domain)
delete_check_domain(w) ==
    LET q == inflight[w]
    IN  /\ q.pc = "check_domain"
        /\ inflight' = [inflight EXCEPT
               ![w].pc = "commit",
               ![w].session = IF SubtopicsOf(q.session, q.domain_id) = {}
                              THEN DeleteDomainRow(q.session, q.domain_id)
                              ELSE q.session]
        /\ UNCHANGED <<domains, subtopics, prompts, images, disk, resp>>

\* db.session.commit(); return Response(status=204).  A commit that raises
\* is answered with 500 and leaves the tables as they were.
delete_commit(w, commit_fails) ==
    LET q == inflight[w]
    IN  /\ q.pc = "commit"
        /\ SetTables(IF commit_fails THEN Rollback(DB, q.session)
                     ELSE Commit(DB, q.session))
        /\ resp' = Response("delete", q.id, NoRequest,
                            IF commit_fails THEN 500 ELSE 204, {}, {})
        /\ inflight' = [inflight EXCEPT ![w] = Idle]
        /\ UNCHANGED disk

-----------------------------------------------------------------------------
(* The requests the model sends.                                           *)

\* The (domain_name, subtopic_name) pairs sent: ('Wo', 'No'), ('wo', 'NO'),
\* ('Wo', 'I') and, with E acute in upper case as the domain name,
\* ('\u00c9', 'I')
NamePairs ==
    { << <<87,111>>, <<78,111>> >>, << <<119,111>>, <<78,79>> >>,
      << <<87,111>>, <<73>> >>, << <<201>>, <<73>> >> }

\* Requests of Spec: JSON requests (title 'a', content 'c') over the name
\* pairs, and one with a blank title and no domain_name.
HierarchyRequests ==
    {JsonRequest(Payload(Str(<<97>>), Str(<<99>>), Str(n[1]), Str(n[2]), Absent, Absent)) :
        n \in NamePairs}
    \cup {JsonRequest(Payload(Str(<<32>>), Str(<<99>>), Absent, Str(<<73>>),
                              Absent, Absent))}

\* Uploaded files: 'a.png' as image/png, 'a.PNG', 'a.txt' as image/png,
\* 'a.png' as text/plain, '.png', and a part with no filename.
OkFile == [filename |-> <<97,46,112,110,103>>,
           mimetype |-> <<105,109,97,103,101,47,112,110,103>>]
UpperFile == [filename |-> <<97,46,80,78,71>>,
              mimetype |-> <<105,109,97,103,101,47,112,110,103>>]
BadExtFile == [filename |-> <<97,46,116,120,116>>,
               mimetype |-> <<105,109,97,103,101,47,112,110,103>>]
BadMimeFile == [filename |-> <<97,46,112,110,103>>,
                mimetype |-> <<116,101,120,116,47,112,108,97,105,110>>]
DotFile == [filename |-> <<46,112,110,103>>,
            mimetype |-> <<105,109,97,103,101,47,112,110,103>>]
EmptyFile == [filename |-> <<>>, mimetype |-> <<>>]

\* A batch of n valid files.
OkBatch(n) == [k \in 1..n |-> OkFile]

\* Batches of valid files: none, half the limit (after a part with no
\* filename, the first with an upper-case extension), one more than half,
\* the limit and MaxBatch.
GoodBatches ==
    {OkBatch(n) : n \in {0, (MAX_IMAGES_PER_PROMPT \div 2) + 1,
                         MAX_IMAGES_PER_PROMPT, MaxBatch}}
    \cup { <<EmptyFile, UpperFile>> \o OkBatch((MAX_IMAGES_PER_PROMPT \div 2) - 1) }

\* Batches with an invalid file, in each position.
BadBatches ==
    { <<BadExtFile, OkFile, OkFile>>, <<OkFile, BadExtFile, OkFile>>,
      <<OkFile, OkFile, BadExtFile>>, <<OkFile, BadMimeFile>>, <<DotFile>> }

\* Requests of SpecImages: form requests placing the prompt (title 'a') in
\* ('Wo', 'No') with a batch of valid files, and requests with an invalid
\* batch that title the prompt 'b' and place it in ('H', 'I').
ImageRequests ==
    {FormRequest(Payload(Str(<<97>>), Str(<<99>>), Str(<<87,111>>), Str(<<78,111>>),
                         Absent, Absent), b) : b \in GoodBatches}
    \cup {FormRequest(Payload(Str(<<98>>), Str(<<99>>), Str(<<72>>), Str(<<73>>),
                              Absent, Absent), b) : b \in BadBatches}

\* The prompt ids requests address: those the table can hold and one more.
PromptIds == 1..(MaxPromptId + 1)

-----------------------------------------------------------------------------
(* Specification: sequentially executed requests from an empty store.      *)

Init ==
    /\ domains = {}
    /\ subtopics = {}
    /\ prompts = {}
    /\ images = {}
    /\ disk = {}
    /\ resp = Response("none", 0, NoRequest, 0, {}, {})
    /\ inflight = [w \in Workers |-> Idle]

Next ==
    \/ \E request \in HierarchyRequests : create_prompt(request)
    \/ \E prompt_id \in PromptIds, request \in HierarchyRequests :
           update_prompt(prompt_id, request)
    \/ \E prompt_id \in PromptIds : delete_prompt(prompt_id, {}, FALSE)
    \/ \E prompt_id \in PromptIds : prompt_detail(prompt_id)

Spec == Init /\ [][Next]_vars

\* Requests with uploaded files.
NextImages ==
    \/ \E request \in ImageRequests : create_prompt(request)
    \/ \E prompt_id \in PromptIds, request \in ImageRequests :
           update_prompt(prompt_id, request)
    \/ \E prompt_id \in PromptIds : delete_prompt(prompt_id, {}, FALSE)
    \/ \E prompt_id \in PromptIds : prompt_detail(prompt_id)

SpecImages == Init /\ [][NextImages]_vars

\* Values of the requests of SpecValidate.  Text fields that are blank
\* after trimming: no key, null, '', ' ', ' \t'.
BlankTexts == {Absent, NoneVal, Str(<<>>), Str(<<32>>), Str(<<32,9>>)}
\* is_template values that are no boolean: null, 'maybe', 1.
NonBooleans == {NoneVal, Str(<<109,97,121,98,101>>), Num(1)}
\* configurable_options values that are neither null nor an object (given
\* as such or as JSON text): '[]', 'x', a list, 7.
NonObjects == {Str(<<91,93>>), Str(<<120>>), List(1), Num(7)}

\* Valid payloads: title 'a', content 'c', in ('H', 'I'); is_template and
\* configurable_options as true and an object, as ' YES ' and '{}' (the
\* strings a form sends), left out and null, or both left out.
ValidJsonPayload == Payload(Str(<<97>>), Str(<<99>>), Str(<<72>>), Str(<<73>>),
                            Bool(TRUE), Dict(1))
ValidFormPayload == Payload(Str(<<97>>), Str(<<99>>), Str(<<72>>), Str(<<73>>),
                            Str(<<32,89,69,83,32>>), Str(<<123,125>>))
ValidPlainPayload == Payload(Str(<<97>>), Str(<<99>>), Str(<<72>>), Str(<<73>>),
                             Absent, NoneVal)
ValidBarePayload == Payload(Str(<<97>>), Str(<<99>>), Str(<<72>>), Str(<<73>>),
                            Absent, Absent)

\* Payloads with one failing field, and with all six failing.
InvalidJsonPayloads ==
    {[ValidJsonPayload EXCEPT ![k] = x] :
        k \in {"title", "content", "domain_name", "subtopic_name"}, x \in BlankTexts}
    \cup {[ValidJsonPayload EXCEPT !.is_template = x] : x \in NonBooleans}
    \cup {[ValidJsonPayload EXCEPT !.configurable_options = x] : x \in NonObjects}
    \cup {Payload(Absent, NoneVal, Str(<<>>), Str(<<32,9>>), Num(1), List(1))}
InvalidFormPayloads ==
    {[ValidFormPayload EXCEPT !.title = Str(<<32>>)],
     [ValidFormPayload EXCEPT !.configurable_options = Str(<<91,93>>)],
     Payload(Absent, Str(<<>>), Str(<<32>>), Str(<<32,9>>),
             Str(<<109,97,121,98,101>>), Str(<<120>>))}

\* Requests of SpecValidate: the valid payloads without files, the invalid
\* ones as JSON and as forms that also upload an image.
ValidateRequests ==
    {JsonRequest(ValidJsonPayload), JsonRequest(ValidPlainPayload),
     JsonRequest(ValidBarePayload), FormRequest(ValidFormPayload, <<>>)}
    \cup {JsonRequest(p) : p \in InvalidJsonPayloads}
    \cup {FormRequest(p, <<OkFile>>) : p \in InvalidFormPayloads}

\* Requests with valid and invalid field values.
NextValidate ==
    \/ \E request \in ValidateRequests : create_prompt(request)
    \/ \E prompt_id \in PromptIds, request \in ValidateRequests :
           update_prompt(prompt_id, request)
    \/ \E prompt_id \in PromptIds : delete_prompt(prompt_id, {}, FALSE)
    \/ \E prompt_id \in PromptIds : prompt_detail(prompt_id)

SpecValidate == Init /\ [][NextValidate]_vars

\* Requests of SpecFiles: form requests placing the prompt (title 'a') in
\* ('Wo', 'No'), with two files to create it and with none to update it.
FileRequest(n) ==
    FormRequest(Payload(Str(<<97>>), Str(<<99>>), Str(<<87,111>>), Str(<<78,111>>),
                        Absent, Absent), OkBatch(n))

\* Requests with uploaded files, where the removal of a file and the commit
\* of a deletion can fail.
NextFiles ==
    \/ create_prompt(FileRequest(2))
    \/ \E prompt_id \in PromptIds : update_prompt(prompt_id, FileRequest(0))
    \/ \E prompt_id \in PromptIds :
          \E failing \in SUBSET {i.filename : i \in ImagesOf(DB, prompt_id)},
             commit_fails \in BOOLEAN :
                delete_prompt(prompt_id, failing, commit_fails)
    \/ \E prompt_id \in PromptIds : prompt_detail(prompt_id)

SpecFiles == Init /\ [][NextFiles]_vars

\* Requests of SpecRace: JSON requests (title 'a', content 'c') naming
\* ('Wo', 'No') and ('wo', 'NO'), and one with a blank title.
RaceRequests ==
    {JsonRequest(Payload(Str(<<97>>), Str(<<99>>), Str(n[1]), Str(n[2]), Absent, Absent)) :
        n \in { << <<87,111>>, <<78,111>> >>, << <<119,111>>, <<78,79>> >> }}
    \cup {JsonRequest(Payload(Str(<<32>>), Str(<<99>>), Str(<<87,111>>), Str(<<73>>),
                              Absent, Absent))}

\* Create and update requests served by two workers at the same time.
NextRace ==
    \/ \E w \in Workers, request \in RaceRequests :
          begin_request(w, "create", 0, request)
    \/ \E w \in Workers, prompt_id \in PromptIds, request \in RaceRequests :
          begin_request(w, "update", prompt_id, request)
    \/ \E w \in Workers : finish_request(w)

SpecRace == Init /\ [][NextRace]_vars

\* Requests of SpecCase: JSON requests (title 'a', content 'c') naming
\* ('Wo', 'No'), ('wo', 'NO') and, with E acute as the domain name in upper
\* and in lower case, ('\u00c9', 'I'), ('\u00e9', 'I').
CaseRequests ==
    {JsonRequest(Payload(Str(<<97>>), Str(<<99>>), Str(n[1]), Str(n[2]), Absent, Absent)) :
        n \in { << <<87,111>>, <<78,111>> >>, << <<119,111>>, <<78,79>> >>,
                << <<201>>, <<73>> >>, << <<233>>, <<73>> >> }}

\* Requests whose names differ in letter case only.
NextCase ==
    \/ \E request \in CaseRequests : create_prompt(request)
    \/ \E prompt_id \in PromptIds, request \in CaseRequests :
           update_prompt(prompt_id, request)
    \/ \E prompt_id \in PromptIds : delete_prompt(prompt_id, {}, FALSE)
    \/ \E prompt_id \in PromptIds : prompt_detail(prompt_id)

SpecCase == Init /\ [][NextCase]_vars

\* Requests of SpecSearch: prompts in ('H', 'I') with the titles and
\* contents 'Ba' / 'c', 'ab' / 'c', 'c' / 'AB' and '\u00c9' / 'c'.
SearchPayloads ==
    {JsonRequest(Payload(Str(n[1]), Str(n[2]), Str(<<72>>), Str(<<73>>), Absent, Absent)) :
        n \in { << <<66,97>>, <<99>> >>, << <<97,98>>, <<99>> >>,
                << <<99>>, <<65,66>> >>, << <<201>>, <<99>> >> }}

\* The queries: none, '', ' ', 'A', ' b ', 'AB', 'x', '_', '\u00c9',
\* '\u00e9'.
Queries ==
    {QueryRequest(Absent)}
    \cup {QueryRequest(Str(q)) :
            q \in {<<>>, <<32>>, <<65>>, <<32,98,32>>, <<65,66>>, <<120>>, <<95>>,
                   <<201>>, <<233>>}}

\* Searches over a store that requests fill and empty.
NextSearch ==
    \/ \E request \in SearchPayloads : create_prompt(request)
    \/ \E prompt_id \in PromptIds, request \in SearchPayloads :
           update_prompt(prompt_id, request)
    \/ \E prompt_id \in PromptIds : delete_prompt(prompt_id, {}, FALSE)
    \/ \E request \in Queries : search_prompts(request)

SpecSearch == Init /\ [][NextSearch]_vars

\* Requests of SpecStructure: titles, Domains and Subtopics named 'b' or
\* 'C', which the order of the code points puts as 'C', 'b' and the order
\* of the lowered names as 'b', 'C'.  A request gives (title, Domain,
\* Subtopic) as ('b', 'b', 'b') or with a 'C' in one of the three places.
StructureRequests ==
    {JsonRequest(Payload(Str(n[1]), Str(<<99>>), Str(n[2]), Str(n[3]), Absent, Absent)) :
        n \in { << <<98>>, <<98>>, <<98>> >>, << <<67>>, <<98>>, <<98>> >>,
                << <<98>>, <<67>>, <<98>> >>, << <<98>>, <<98>>, <<67>> >> }}

\* The hierarchy listed over a store that requests fill and empty.
NextStructure ==
    \/ \E request \in StructureRequests : create_prompt(request)
    \/ \E prompt_id \in PromptIds, request \in StructureRequests :
           update_prompt(prompt_id, request)
    \/ \E prompt_id \in PromptIds : delete_prompt(prompt_id, {}, FALSE)
    \/ structure

SpecStructure == Init /\ [][NextStructure]_vars

\* Requests of SpecDelete: a form request with one file placing the prompt
\* in ('Wo', 'No'), and JSON requests placing it in ('Wo', 'I') and in
\* ('H', 'I').
DeleteRequests ==
    {FileRequest(1),
     JsonRequest(Payload(Str(<<97>>), Str(<<99>>), Str(<<87,111>>), Str(<<73>>), Absent, Absent)),
     JsonRequest(Payload(Str(<<97>>), Str(<<99>>), Str(<<72>>), Str(<<73>>), Absent, Absent))}

\* No worker is serving a request.
Quiet == \A w \in Workers : inflight[w].pc = "idle"

\* Requests served one after the other, the deletions step by step and
\* with no failing file removal or commit.
NextDelete ==
    \/ \E request \in DeleteRequests : Quiet /\ create_prompt(request)
    \/ \E w \in Workers, prompt_id \in PromptIds : Quiet /\ delete_load(w, prompt_id)
    \/ \E w \in Workers : delete_remove_files(w, {})
    \/ \E w \in Workers : delete_flush_prompt(w)
    \/ \E w \in Workers : delete_check_subtopic(w)
    \/ \E w \in Workers : delete_check_domain(w)
    \/ \E w \in Workers : delete_commit(w, FALSE)

SpecDelete == Init /\ [][NextDelete]_vars

\* Updates that attach four or five files to a prompt created without
\* any, served by two workers at the same time.
NextCap ==
    \/ \E w \in Workers : begin_request(w, "create", 0, FileRequest(0))
    \/ \E w \in Workers, prompt_id \in PromptIds, n \in {4, 5} :
          begin_request(w, "update", prompt_id, FileRequest(n))
    \/ \E w \in Workers : finish_request(w)

SpecCap == Init /\ [][NextCap]_vars

\* Requests served one after the other over prompts with and without an
\* image: the creates send DeleteRequests, the updates the two of them
\* that carry no file.
NextFrame ==
    \/ \E request \in DeleteRequests : create_prompt(request)
    \/ \E prompt_id \in PromptIds, request \in DeleteRequests :
          request.is_json /\ update_prompt(prompt_id, request)
    \/ \E prompt_id \in PromptIds : delete_prompt(prompt_id, {}, FALSE)
    \/ \E prompt_id \in PromptIds : prompt_detail(prompt_id)

SpecFrame == Init /\ [][NextFrame]_vars

\* Requests of SpecPrune: JSON requests (title 'a', content 'c') naming
\* ('Wo', 'No') and ('Wo', 'I').
PruneRequests ==
    {JsonRequest(Payload(Str(<<97>>), Str(<<99>>), Str(<<87,111>>), Str(n), Absent, Absent)) :
        n \in { <<78,111>>, <<73>> }}

\* Create and update requests served by two workers while prompts are
\* deleted: a delete commits between a worker's Domain query and the rest
\* of its handler.
NextPrune ==
    \/ \E w \in Workers, request \in PruneRequests :
          begin_request(w, "create", 0, request)
    \/ \E w \in Workers, prompt_id \in PromptIds, request \in PruneRequests :
          begin_request(w, "update", prompt_id, request)
    \/ \E w \in Workers : finish_request(w)
    \/ \E prompt_id \in PromptIds : delete_prompt(prompt_id, {}, FALSE)

SpecPrune == Init /\ [][NextPrune]_vars

\* Requests of SpecReplace: a form (title 'a', content 'c', in ('H', 'I'),
\* is_template ' YES ', configurable_options '{}') that uploads an image,
\* and JSON requests with title 'b', content 'd', in ('Wo', 'No'): one with
\* is_template true and an object, one with neither key.
ReplaceForm == FormRequest(ValidFormPayload, <<OkFile>>)
ReplaceJson ==
    {JsonRequest(Payload(Str(<<98>>), Str(<<100>>), Str(<<87,111>>), Str(<<78,111>>),
                         o[1], o[2])) :
        o \in { <<Bool(TRUE), Dict(1)>>, <<Absent, Absent>> }}

\* Prompts created with an image and overwritten by updates.
NextReplace ==
    \/ \E request \in {ReplaceForm} \cup ReplaceJson : create_prompt(request)
    \/ \E prompt_id \in PromptIds, request \in ReplaceJson :
           update_prompt(prompt_id, request)
    \/ \E prompt_id \in PromptIds : delete_prompt(prompt_id, {}, FALSE)
    \/ \E prompt_id \in PromptIds : prompt_detail(prompt_id)

SpecReplace == Init /\ [][NextReplace]_vars

-----------------------------------------------------------------------------
(* Properties.                                                             *)

\* Subtopics with no Prompt, Domains with no Subtopic.
EmptySubtopics(db) == {x \in db.subtopics : PromptsOf(db, x.id) = {}}
EmptyDomains(db) == {d \in db.domains : SubtopicsOf(db, d.id) = {}}

\* The last request was a delete that completed.
Deleted == resp.op = "delete" /\ resp.status = 204

\* C1 as stated: after any delete-prompt request that completed (204) the
\* store holds no Domain with zero Subtopics and no Subtopic with zero
\* Prompts.
C1_NoEmptyNodeAfterDelete ==
    Deleted => EmptySubtopics(DB) = {} /\ EmptyDomains(DB) = {}

\* C1 amended: a delete-prompt request that completes (204) leaves no
\* Subtopic without Prompts and no Domain without Subtopics that was not
\* already empty before the request: the deleted prompt's own parents are
\* pruned, nodes an earlier update emptied stay.
C1_DeleteLeavesNoNewEmptyNode ==
    [][Deleted' =>
          /\ EmptySubtopics(DB)' \subseteq EmptySubtopics(DB)
          /\ EmptyDomains(DB)' \subseteq EmptyDomains(DB)]_vars

\* A delete pruned the prompt's Subtopic while a Subtopic that an update
\* had emptied is still there.
C1_Witness ==
    /\ Deleted
    /\ Cardinality(subtopics) = 1
    /\ EmptySubtopics(DB) = subtopics
    /\ Cardinality(domains) = 1

\* C2: delete_prompt on an existing prompt P answers 204 and removes P; if P
\* was not the last prompt of its Subtopic, the Subtopic and its Domain are
\* kept; if P was the last one, the Subtopic is deleted, and the Domain is
\* deleted exactly when that Subtopic was its last one.  No other Domain,
\* Subtopic or Prompt row is touched.
C2_DeletePrunesParents ==
    [][\A p \in prompts :
         (resp'.op = "delete" /\ resp'.id = p.id) =>
            LET x == CHOOSE y \in subtopics : y.id = p.subtopic_id
                d == CHOOSE e \in domains : e.id = x.domain_id
                last_prompt == PromptsOf(DB, x.id) = {p}
                last_subtopic == SubtopicsOf(DB, d.id) = {x}
            IN  /\ resp'.status = 204
                /\ prompts' = prompts \ {p}
                /\ subtopics' = IF last_prompt THEN subtopics \ {x} ELSE subtopics
                /\ domains' = IF last_prompt /\ last_subtopic
                              THEN domains \ {d} ELSE domains]_vars

\* Deleting the last prompt of a one-subtopic domain left zero Domain,
\* Subtopic and Prompt rows.
C2_Witness ==
    /\ Deleted
    /\ domains = {}
    /\ subtopics = {}
    /\ prompts = {}

\* The request of the last step passed validation and named an existing
\* prompt or created one: it got as far as the hierarchy resolver.
Resolved(r) == r.op \in {"create", "update"} /\ r.status \notin {400, 404}

\* The names a request is resolved with.
RequestNames(r) ==
    _validate_prompt_payload(_collect_payload_and_files(r.request).payload).fields

\* Domains and Subtopics whose name equals the given one ignoring case.
SameDomains(db, domain_name) ==
    {d \in db.domains : Lower(d.name) = Lower(domain_name)}
SameSubtopics(db, domain_id, subtopic_name) ==
    {x \in SubtopicsOf(db, domain_id) : Lower(x.name) = Lower(subtopic_name)}

\* C3: resolution is idempotent and case-insensitive.  A create or update
\* request whose domain_name and subtopic_name equal, ignoring case, those
\* of a Domain and its Subtopic that an earlier request left in the store
\* completes (200/201), binds its prompt to that very Subtopic of that very
\* Domain and inserts no Domain or Subtopic row.
C3_ResolutionIsCaseInsensitive ==
    [][Resolved(resp') =>
          \A d \in SameDomains(DB, RequestNames(resp').domain_name) :
             \A x \in SameSubtopics(DB, d.id, RequestNames(resp').subtopic_name) :
                /\ resp'.status \in {200, 201}
                /\ domains' = domains
                /\ subtopics' = subtopics
                /\ PromptOf(DB', resp'.id).subtopic_id = x.id]_vars

\* The request of the last step named an existing prompt or created one and
\* passed validation: its uploaded files went to _attach_images.
ReachedAttach(r) ==
    /\ r.op \in {"create", "update"}
    /\ r.status \notin {404, 500}
    /\ ValidationErrors(_collect_payload_and_files(r.request).payload) = {}

\* The uploaded files of a request that have a filename, and those of them
\* that are not allowed images.
Uploaded(r) == CleanedFiles(_collect_payload_and_files(r.request).files)
InvalidUploads(r) ==
    {k \in 1..Len(Uploaded(r)) : ~_is_allowed_image(Uploaded(r)[k])}

\* The images the prompt of a request has in the tables db: none for a
\* create, whose prompt is new.
ExistingImages(db, r) == IF r.op = "update" THEN ImagesOf(db, r.id) ELSE {}

\* C4: in every reachable state every Prompt has at most
\* MAX_IMAGES_PER_PROMPT = 8 PromptImage rows.
C4_AtMostEightImages ==
    \A p \in prompts : Cardinality(ImagesOf(DB, p.id)) <= MAX_IMAGES_PER_PROMPT

\* An update brought a prompt that had images to exactly 8 of them.
C4_Witness ==
    /\ resp.op = "update"
    /\ resp.status = 200
    /\ Len(Uploaded(resp)) \in 1..(MAX_IMAGES_PER_PROMPT - 1)
    /\ Cardinality(ImagesOf(DB, resp.id)) = MAX_IMAGES_PER_PROMPT

\* C5: a create or update request whose uploads with a filename, added to
\* the images the prompt has, exceed 8 is rejected as a whole (400 with an
\* 'images' error): no PromptImage row is added, no file is written, the
\* existing images stay; a batch of allowed images that brings the total
\* to exactly 8 succeeds and is stored whole.  The request is one that
\* names an existing prompt (update) and passes field validation.
C5_OverLimitBatchRejected ==
    [][ReachedAttach(resp') =>
          LET n == Len(Uploaded(resp'))
              existing == Cardinality(ExistingImages(DB, resp'))
          IN  /\ existing + n > MAX_IMAGES_PER_PROMPT =>
                    /\ resp'.status = 400
                    /\ "images" \in resp'.errors
                    /\ images' = images
                    /\ disk' = disk
              /\ (existing + n = MAX_IMAGES_PER_PROMPT /\ n > 0
                     /\ InvalidUploads(resp') = {}) =>
                    /\ resp'.status \in {200, 201}
                    /\ images \subseteq images'
                    /\ Cardinality(ImagesOf(DB', resp'.id)) = MAX_IMAGES_PER_PROMPT
                    /\ Cardinality(disk') = Cardinality(disk) + n]_vars

\* An update was refused for the limit although its batch alone is within
\* the limit: the prompt's own images made the total exceed it.
C5_Witness ==
    /\ resp.op = "update"
    /\ resp.status = 400
    /\ "images" \in resp.errors
    /\ InvalidUploads(resp) = {}
    /\ Len(Uploaded(resp)) <= MAX_IMAGES_PER_PROMPT
    /\ Cardinality(ImagesOf(DB, resp.id)) < MAX_IMAGES_PER_PROMPT

\* C6: a batch with a file of a disallowed extension or of a mimetype not
\* starting with 'image/' is rejected whole, wherever the invalid file is
\* in the batch: 400 with an 'images' error, no file is written and no
\* PromptImage row is added.
C6_InvalidBatchRejected ==
    [][(ReachedAttach(resp') /\ InvalidUploads(resp') # {}) =>
          /\ resp'.status = 400
          /\ "images" \in resp'.errors
          /\ images' = images
          /\ disk' = disk]_vars

\* A batch of three whose last file has a disallowed extension was refused
\* for a prompt that has images.
C6_Witness ==
    /\ resp.op = "update"
    /\ resp.status = 400
    /\ resp.request.files = <<OkFile, OkFile, BadExtFile>>
    /\ ImagesOf(DB, resp.id) # {}

\* C7: when image attachment fails during create or update (400 with an
\* 'images' error), the committed Domain, Subtopic, Prompt and PromptImage
\* tables are what they were before the request: the rows the resolver
\* inserted for it and the fields an update assigned are gone.
C7_AttachFailureRollsBack ==
    [][(resp'.op \in {"create", "update"} /\ resp'.status = 400
           /\ "images" \in resp'.errors) =>
          /\ domains' = domains
          /\ subtopics' = subtopics
          /\ prompts' = prompts
          /\ images' = images]_vars

\* An update that named a Domain not in the store and another title failed
\* in the attachment.
C7_Witness ==
    /\ resp.op = "update"
    /\ resp.status = 400
    /\ "images" \in resp.errors
    /\ SameDomains(DB, RequestNames(resp).domain_name) = {}
    /\ PromptOf(DB, resp.id).title # RequestNames(resp).title

\* The fields of a payload that fail validation, told by the kind of value
\* sent for each.
FailingFields(payload) ==
    {k \in {"title", "content", "domain_name", "subtopic_name"} :
        payload[k] \in BlankTexts}
    \cup (IF payload.is_template \in NonBooleans THEN {"is_template"} ELSE {})
    \cup (IF payload.configurable_options \in NonObjects
          THEN {"configurable_options"} ELSE {})

\* C8: a create request, or an update request for an existing prompt, that
\* fails field validation (title, content, domain_name or subtopic_name
\* blank after trimming, is_template no boolean, configurable_options
\* neither null nor an object) returns 400 with an error entry for exactly
\* the failing fields and changes nothing: no Domain, Subtopic, Prompt or
\* PromptImage row is inserted or modified and no file is written.
C8_ValidationFailureChangesNothing ==
    [][(resp'.op \in {"create", "update"} /\ resp'.status # 404
           /\ FailingFields(resp'.request.payload) # {}) =>
          /\ resp'.status = 400
          /\ resp'.errors = FailingFields(resp'.request.payload)
          /\ DB' = DB
          /\ disk' = disk]_vars

\* An update of an existing prompt that uploads an image was refused with
\* an error for each of the six fields.
C8_Witness ==
    /\ resp.op = "update"
    /\ resp.status = 400
    /\ resp.errors = PayloadKeys
    /\ resp.request.files # <<>>
    /\ PromptExists(DB, resp.id)

\* C9: get, update and delete of a prompt id that is not in the store
\* return 404 and leave all tables and the upload directory unchanged.  A
\* delete that succeeds takes its id out of the store, and an id enters the
\* store only as the id of the prompt a create returns (201): after the
\* delete of p, get and delete of p return 404 until a create produces p
\* again.
C9_UnknownIdIsNotFound ==
    [][/\ (resp'.op \in {"get", "update", "delete"}
              /\ resp'.id \notin Ids(prompts)) =>
             /\ resp'.status = 404
             /\ DB' = DB
             /\ disk' = disk
       /\ (resp'.op = "delete" /\ resp'.status = 204) =>
             resp'.id \notin Ids(prompts')
       /\ Ids(prompts') \ Ids(prompts) # {} =>
             /\ resp'.op = "create"
             /\ resp'.status = 201
             /\ Ids(prompts') \ Ids(prompts) = {resp'.id}]_vars

\* A get or delete of an id below that of a stored prompt (an id that was
\* handed out and deleted) was answered 404.
C9_Witness ==
    /\ resp.op \in {"get", "delete"}
    /\ resp.status = 404
    /\ \E p \in prompts : resp.id < p.id

\* C10: an update of an existing prompt with a valid payload whose
\* domain_name matches no Domain of the store (ignoring case) succeeds
\* (200), inserts exactly one Domain and exactly one Subtopic bound to it,
\* named as the request says, re-binds the prompt to that Subtopic keeping
\* its id, and leaves the Prompt rows as many as they were.
C10_UpdateCreatesNewClassification ==
    [][(resp'.op = "update" /\ resp'.status \notin {400, 404}
           /\ SameDomains(DB, RequestNames(resp').domain_name) = {}) =>
          /\ resp'.status = 200
          /\ \E d \in domains' \ domains, x \in subtopics' \ subtopics :
                /\ domains' = domains \cup {d}
                /\ subtopics' = subtopics \cup {x}
                /\ d.name = RequestNames(resp').domain_name
                /\ x.name = RequestNames(resp').subtopic_name
                /\ x.domain_id = d.id
                /\ PromptOf(DB', resp'.id).subtopic_id = x.id
          /\ Ids(prompts') = Ids(prompts)
          /\ Cardinality(prompts') = Cardinality(prompts)]_vars

\* An update moved the only prompt to a new Domain and Subtopic; those it
\* left are still in the store.
C10_Witness ==
    /\ resp.op = "update"
    /\ resp.status = 200
    /\ Cardinality(prompts) = 1
    /\ Cardinality(domains) = 2
    /\ Cardinality(subtopics) = 2
    /\ EmptyDomains(DB) = {}
    /\ \E x \in EmptySubtopics(DB) :
          x.domain_id # (CHOOSE y \in subtopics :
                             y.id = PromptOf(DB, resp.id).subtopic_id).domain_id

\* C11: Domain and Subtopic rows are destroyed only by delete_prompt: a
\* step that takes a Domain or Subtopic id out of the store is a delete that
\* completed (204).  No create and no update does, also not the update that
\* moves the last prompt out of a Subtopic.
C11_OnlyDeleteDestroysNodes ==
    [][(~(Ids(domains) \subseteq Ids(domains'))
           \/ ~(Ids(subtopics) \subseteq Ids(subtopics'))) =>
          (resp'.op = "delete" /\ resp'.status = 204)]_vars

\* An update moved the last prompt of a Domain away: the Subtopic it left
\* is in the store with no Prompt, in a Domain none of whose Subtopics has
\* one.
C11_Witness ==
    /\ resp.op = "update"
    /\ resp.status = 200
    /\ \E d \in domains :
          /\ SubtopicsOf(DB, d.id) # {}
          /\ SubtopicsOf(DB, d.id) \subseteq EmptySubtopics(DB)
          /\ PromptOf(DB, resp.id).subtopic_id \notin Ids(SubtopicsOf(DB, d.id))

\* The file names of the images of a prompt.
ImageFiles(db, prompt_id) == {i.filename : i \in ImagesOf(db, prompt_id)}

\* C12: in every committed state reachable by create, update and delete
\* requests, a delete whose commit fails after the file removal included,
\* every PromptImage row has its file in the upload directory, and no
\* PromptImage row is removed while its file stays.
C12_EveryRowHasItsFile ==
    [][/\ \A i \in images' : i.filename \in disk'
       /\ \A i \in images \ images' : i.filename \notin disk']_vars

\* C13: delete_prompt of an existing prompt, whose commit succeeds, removes
\* the file of every image of the prompt but those whose removal fails with
\* an OSError, and deletes the prompt with all its PromptImage rows: with
\* files already missing or failing to be removed the request still returns
\* 204, the Prompt and its PromptImage rows are gone and the other images
\* and files stay.
C13_FileFailureDoesNotAbortDelete ==
    [][\A prompt_id \in Ids(prompts) :
         \A failing \in SUBSET ImageFiles(DB, prompt_id) :
            delete_prompt(prompt_id, failing, FALSE) =>
               /\ resp'.status = 204
               /\ prompt_id \notin Ids(prompts')
               /\ images' = images \ ImagesOf(DB, prompt_id)
               /\ disk' = disk \ (ImageFiles(DB, prompt_id) \ failing)]_vars

\* A delete completed although the removal of a file of the prompt failed:
\* the file is in the directory with no row left for it.
C13_Witness ==
    /\ Deleted
    /\ OrphanFiles(DB, disk) # {}

\* C14: a successful attach gives the i-th file of the batch (from 0, the
\* entries with no filename dropped) one PromptImage row of the request's
\* prompt with sort_order = (images the prompt had before) + i, and no
\* request changes the sort_order of a PromptImage row that stays stored.
C14_SortOrderAppends ==
    [][/\ (ReachedAttach(resp') /\ resp'.status \in {200, 201}) =>
             LET added == images' \ images
                 existing == Cardinality(ExistingImages(DB, resp'))
             IN  /\ Cardinality(added) = Len(Uploaded(resp'))
                 /\ \A k \in 1..Len(Uploaded(resp')) :
                       \E r \in added :
                          /\ r.prompt_id = resp'.id
                          /\ r.sort_order = existing + (k - 1)
                          /\ r.filename.ext = GeneratedExt(Uploaded(resp')[k].filename)
       /\ \A i \in images : \A j \in images' :
             j.id = i.id => j.sort_order = i.sort_order]_vars

\* An update appended a batch whose first file is 'a.PNG' to a prompt that
\* had half the limit of images: that file's row is numbered after them.
C14_Witness ==
    /\ resp.op = "update"
    /\ resp.status = 200
    /\ \E i \in ImagesOf(DB, resp.id) :
          /\ i.sort_order = MAX_IMAGES_PER_PROMPT \div 2
          /\ i.filename.ext = <<46,80,78,71>>

\* C15: when create/update requests served at the same time race to create
\* the same (domain_name, subtopic_name) pair, none of them ends with a 500
\* response: a worker that goes on from its Domain query answers with
\* another status, whatever was committed in between.
C15_RaceIsBenign ==
    [][\A w \in Workers :
          (inflight[w].pc = "queried" /\ inflight'[w].pc = "idle") =>
             resp'.status # 500]_vars

\* C16: in every committed state reachable by create, update and delete
\* requests every Subtopic references exactly one existing Domain and every
\* Prompt exactly one existing Subtopic.
C16_ParentsExist ==
    /\ \A x \in subtopics :
          Cardinality({d \in domains : d.id = x.domain_id}) = 1
    /\ \A p \in prompts :
          Cardinality({x \in subtopics : x.id = p.subtopic_id}) = 1

\* A delete pruned the first Domain and its Subtopic; a prompt of a Domain
\* and Subtopic created later is still stored.
C16_Witness ==
    /\ Deleted
    /\ prompts # {}
    /\ \A d \in domains : d.id > 1
    /\ \A x \in subtopics : x.id > 1

\* C17: the resolver never renames or merges existing nodes.  No request
\* changes the name of a Domain or Subtopic that stays in the store (nor the
\* Domain of a Subtopic), and a create or update that completes and names a
\* stored Domain in another letter case inserts no Domain and binds its
\* prompt under that Domain, which keeps the casing it was created with.
C17_FirstCasingWins ==
    [][/\ \A d \in domains : \A e \in domains' : e.id = d.id => e = d
       /\ \A x \in subtopics : \A y \in subtopics' : y.id = x.id => y = x
       /\ (Resolved(resp') /\ resp'.status \in {200, 201}) =>
             \A d \in SameDomains(DB, RequestNames(resp').domain_name) :
                d.name # RequestNames(resp').domain_name =>
                   /\ domains' = domains
                   /\ \E x \in SubtopicsOf(DB', d.id) :
                         PromptOf(DB', resp'.id).subtopic_id = x.id]_vars

\* C18: fetching a prompt by id right after the request that created it
\* answers 200 with the is_template and configurable_options the request
\* gave as a JSON boolean and a JSON object, and with false and null when
\* the request gave neither key.
C18_OptionsRoundTrip ==
    [][(/\ resp.op = "create" /\ resp.status = 201
        /\ resp'.op = "get" /\ resp'.id = resp.id) =>
          /\ resp'.status = 200
          /\ \E b \in resp'.body : resp'.body = {b}
          /\ \A b \in resp'.body :
                LET payload == resp.request.payload
                IN  /\ payload.is_template.t = "bool" =>
                          b.is_template = (payload.is_template = Bool(TRUE))
                    /\ payload.configurable_options.t = "dict" =>
                          b.configurable_options = payload.configurable_options
                    /\ (/\ payload.is_template = Absent
                        /\ payload.configurable_options = Absent) =>
                          /\ b.is_template = FALSE
                          /\ b.configurable_options = NoneVal]_vars

\* A fetch answers with is_template true and the object a create stored.
C18_Witness ==
    /\ resp.op = "get"
    /\ resp.status = 200
    /\ \E b \in resp.body : b.is_template = TRUE /\ b.configurable_options = Dict(1)

\* text contains sub as a run of consecutive characters
Contains(text, sub) ==
    \E i \in 0..(Len(text) - Len(sub)) : SubSeq(text, i + 1, i + Len(sub)) = sub

\* The prompts whose title or content contains the keyword, letter case
\* set aside.
Containing(db, keyword) ==
    {p \in db.prompts : \/ Contains(Lower(p.title), Lower(keyword))
                        \/ Contains(Lower(p.content), Lower(keyword))}

\* C19: a search answers 200 with exactly the prompts whose title or
\* content contains the trimmed q as a substring, letter case set aside,
\* each once and in the order of their titles; a missing, empty or blank q
\* gives the empty list.
C19_SearchReturnsContaining ==
    resp.op = "search" =>
        /\ resp.status = 200
        /\ \E b \in resp.body : resp.body = {b}
        /\ \A b \in resp.body :
              LET keyword == Strip(QueryArg(resp.request))
                  expected == IF keyword = <<>> THEN {} ELSE Containing(DB, keyword)
              IN  /\ {b.items[i].id : i \in 1..Len(b.items)} = Ids(expected)
                  /\ Len(b.items) = Cardinality(expected)
                  /\ \A i \in 1..Len(b.items) :
                        b.items[i] = _serialize_prompt(DB, b.items[i].id)
                  /\ \A i, j \in 1..Len(b.items) :
                        i < j => BinaryLeq(b.items[i].title, b.items[j].title)

\* The items of a JSON array list the rows, each once.
ListsEachOnce(items, rows) ==
    /\ Len(items) = Cardinality(rows)
    /\ {items[i].id : i \in 1..Len(items)} = Ids(rows)

\* The texts texts[1], texts[2], ... ascend.
Ascending(texts) ==
    \A i, j \in 1..Len(texts) : i < j => BinaryLeq(texts[i], texts[j])

\* C20: the structure lists every Domain once, under each Domain its own
\* Subtopics once each and under each Subtopic its own Prompts once each,
\* every item with the stored name or title; the Domains ascend by name,
\* the Subtopics by lowered name and the Prompts by lowered title, and a
\* prompt item has the keys id and title only.
C20_StructureListsHierarchy ==
    resp.op = "structure" =>
        /\ resp.status = 200
        /\ \E b \in resp.body : resp.body = {b}
        /\ \A b \in resp.body :
              /\ ListsEachOnce(b.items, domains)
              /\ Ascending([i \in 1..Len(b.items) |-> b.items[i].name])
              /\ \A i \in 1..Len(b.items) :
                    LET d == b.items[i]
                    IN  /\ \E row \in domains : row.id = d.id /\ row.name = d.name
                        /\ ListsEachOnce(d.subtopics, SubtopicsOf(DB, d.id))
                        /\ Ascending([k \in 1..Len(d.subtopics) |->
                                         Lower(d.subtopics[k].name)])
                        /\ \A k \in 1..Len(d.subtopics) :
                              LET x == d.subtopics[k]
                              IN  /\ \E row \in subtopics :
                                        row.id = x.id /\ row.name = x.name
                                  /\ ListsEachOnce(x.prompts, PromptsOf(DB, x.id))
                                  /\ Ascending([n \in 1..Len(x.prompts) |->
                                                   Lower(x.prompts[n].title)])
                                  /\ \A n \in 1..Len(x.prompts) :
                                        /\ DOMAIN x.prompts[n] = {"id", "title"}
                                        /\ PromptOf(DB, x.prompts[n].id).title
                                               = x.prompts[n].title

\* The structure lists two Domains, 'C' before 'b', and a Subtopic with the
\* prompts 'b' and 'C' in this order.
C20_Witness ==
    /\ resp.op = "structure"
    /\ \E b \in resp.body :
          /\ Len(b.items) = 2
          /\ b.items[1].name = <<67>>
          /\ \E i \in 1..2 : \E k \in 1..Len(b.items[i].subtopics) :
                [n \in 1..Len(b.items[i].subtopics[k].prompts) |->
                    b.items[i].subtopics[k].prompts[n].title] = << <<98>>, <<67>> >>

\* Worker w leaves the step named from.
Leaves(w, from) == inflight[w].pc = from /\ inflight'[w].pc # from

\* C21: within a delete request the files are removed while the prompt is
\* still stored; the Prompt row is deleted next, the files gone; the
\* Subtopic is checked on the tables without the prompt and pruned exactly
\* when it has no prompt left; the Domain is checked only after the
\* Subtopic was pruned in this request and pruned when it has no Subtopic
\* left; and the committed tables change at the commit only, which ends
\* the request with 204.
C21_DeleteStepsInOrder ==
    [][\A w \in Workers :
          /\ Leaves(w, "idle") /\ inflight'[w].op = "delete" =>
                inflight'[w].pc = "remove_files"
          /\ Leaves(w, "remove_files") =>
                /\ inflight'[w].pc = "delete_prompt"
                /\ PromptExists(DB, inflight[w].id)
                /\ disk' = disk \ inflight[w].names
          /\ Leaves(w, "delete_prompt") =>
                /\ inflight'[w].pc = "check_subtopic"
                /\ disk \cap inflight[w].names = {}
                /\ PromptExists(DB, inflight[w].id)
                /\ ~PromptExists(inflight'[w].session, inflight[w].id)
                /\ inflight'[w].session.subtopics = subtopics
                /\ inflight'[w].session.domains = domains
          /\ Leaves(w, "check_subtopic") =>
                LET q == inflight[w]
                    left == PromptsOf(DeletePromptRow(DB, q.id), q.subtopic_id)
                IN  /\ ~PromptExists(q.session, q.id)
                    /\ inflight'[w].session.domains = domains
                    /\ IF left = {}
                       THEN /\ inflight'[w].pc = "check_domain"
                            /\ Ids(inflight'[w].session.subtopics)
                                  = Ids(subtopics) \ {q.subtopic_id}
                       ELSE /\ inflight'[w].pc = "commit"
                            /\ inflight'[w].session.subtopics = subtopics
          /\ Leaves(w, "check_domain") =>
                LET q == inflight[w]
                IN  /\ inflight'[w].pc = "commit"
                    /\ q.subtopic_id \notin Ids(q.session.subtopics)
                    /\ inflight'[w].session.subtopics = q.session.subtopics
                    /\ IF SubtopicsOf(q.session, q.domain_id) = {}
                       THEN Ids(inflight'[w].session.domains) = Ids(domains) \ {q.domain_id}
                       ELSE inflight'[w].session.domains = domains
          /\ (inflight[w].pc # "idle" /\ DB' # DB) =>
                /\ Leaves(w, "commit")
                /\ inflight'[w].pc = "idle"
                /\ DB' = inflight[w].session
                /\ disk' = disk
                /\ resp'.op = "delete" /\ resp'.status = 204]_vars

\* A delete is about to commit with the Subtopic and the Domain of its
\* prompt pruned, the tables still holding all three.
C21_Witness ==
    \E w \in Workers :
       /\ inflight[w].pc = "commit"
       /\ PromptExists(DB, inflight[w].id)
       /\ inflight[w].names # {}
       /\ inflight[w].subtopic_id \in Ids(subtopics)
       /\ inflight[w].domain_id \in Ids(domains)
       /\ inflight[w].domain_id \notin Ids(inflight[w].session.domains)

\* C22: whatever the interleaving of the requests, no prompt has more than
\* MAX_IMAGES_PER_PROMPT committed PromptImage rows.
C22_CapUnderInterleaving ==
    \A p \in prompts :
       Cardinality({i \in images : i.prompt_id = p.id}) <= MAX_IMAGES_PER_PROMPT

\* C23: an update addressed to an id that is not in the store is answered
\* 404 with no validation error, whatever its payload, and leaves the
\* Domains, Subtopics and Prompts as they are.
C23_ExistenceCheckedFirst ==
    [][(resp'.op = "update" /\ ~PromptExists(DB, resp'.id)) =>
          /\ resp'.status = 404
          /\ resp'.errors = {}
          /\ domains' = domains
          /\ subtopics' = subtopics
          /\ prompts' = prompts]_vars

\* An update of an unknown id whose payload fails validation and names a
\* Domain that is not stored was answered 404.
C23_Witness ==
    /\ resp.op = "update"
    /\ resp.status = 404
    /\ FailingFields(resp.request.payload) # {}
    /\ resp.request.payload.domain_name = Str(<<72>>)
    /\ domains = {}

\* C24: a delete answered 204 removes from the tables the prompt it names
\* and that prompt's PromptImage rows, from the upload directory the files
\* of those rows, and besides at most the prompt's Subtopic and that
\* Subtopic's Domain; every other row and file stays as it is.
C24_DeleteTouchesOnlyItsOwn ==
    [][(resp'.op = "delete" /\ resp'.status = 204) =>
          LET P == PromptOf(DB, resp'.id)
              S == CHOOSE x \in subtopics : x.id = P.subtopic_id
              own == ImagesOf(DB, P.id)
          IN  /\ prompts' = prompts \ {P}
              /\ images' = images \ own
              /\ disk' = disk \ {i.filename : i \in own}
              /\ subtopics' \subseteq subtopics
              /\ subtopics \ subtopics' \subseteq {S}
              /\ domains' \subseteq domains
              /\ \A d \in domains \ domains' :
                    d.id = S.domain_id /\ S \notin subtopics']_vars

\* A delete was answered 204 and left another prompt with its image and
\* file, and a Subtopic that has no prompt.
C24_Witness ==
    /\ resp.op = "delete"
    /\ resp.status = 204
    /\ \E i \in images : i.filename \in disk
    /\ \E x \in subtopics : PromptsOf(DB, x.id) = {}

\* C25: whatever the interleaving of create and update requests served at
\* the same time, no two Domains have names that are equal ignoring case,
\* and no two Subtopics of one Domain have names that are equal ignoring
\* case.
C25_NoCaseDuplicates ==
    /\ \A d \in domains : \A e \in domains :
          Lower(d.name) = Lower(e.name) => d = e
    /\ \A x \in subtopics : \A y \in subtopics :
          (x.domain_id = y.domain_id /\ Lower(x.name) = Lower(y.name)) => x = y

\* C26: when a delete that prunes a Subtopic is served at the same time as
\* a create or update resolving to that Subtopic, the prompt of a request
\* answered 201 or 200 is stored and bound to a Subtopic that is stored
\* under a Domain that is stored.
C26_AcknowledgedPromptIsReachable ==
    [][(resp' # resp /\ resp'.op \in {"create", "update"} /\ resp'.status \in {200, 201}) =>
          \E p \in prompts' :
             /\ p.id = resp'.id
             /\ \E x \in subtopics' :
                   /\ x.id = p.subtopic_id
                   /\ \E d \in domains' : d.id = x.domain_id]_vars

\* C27: with requests served one after the other, the sort_order values of
\* a prompt that has n images are the numbers 0 .. n-1, each once, and the
\* images serialized by ascending sort_order are in the order in which they
\* were attached (the order of their ids).
C27_SortOrderIsDense ==
    \A p \in prompts :
       LET rows == ImagesOf(DB, p.id)
           n == Cardinality(rows)
           serialized == _serialize_images(DB, p.id)
       IN  /\ {i.sort_order : i \in rows} = 0..(n - 1)
           /\ Len(serialized) = n
           /\ \A k \in 1..(n - 1) : serialized[k].id < serialized[k + 1].id

\* An update attached a second batch to a prompt that had images; its
\* rows are serialized after those the prompt had.
C27_Witness ==
    /\ resp.op = "update"
    /\ resp.status = 200
    /\ Len(Uploaded(resp)) > 1
    /\ Cardinality(ImagesOf(DB, resp.id)) > Len(Uploaded(resp))
    /\ Len(_serialize_images(DB, resp.id)) = Cardinality(ImagesOf(DB, resp.id))

\* C28: after requests that ran to completion with no failure of a file
\* removal, every file of the upload directory is the file of a stored
\* PromptImage row, and no two PromptImage rows have the same filename.
C28_NoOrphanFile ==
    /\ \A n \in disk : \E i \in images : i.filename = n
    /\ \A i \in images : \A j \in images : i.filename = j.filename => i = j

\* A prompt was deleted with its images, whose files went, while the images
\* of another prompt and their files stay.
C28_Witness ==
    /\ resp.op = "delete"
    /\ resp.status = 204
    /\ images # {}
    /\ 1 \notin Ids(images)
    /\ disk # {}

\* C29: a Subtopic that has no prompt, and its Domain, are found by the
\* resolver: a create or update request that names them, in any letter
\* case, completes (200/201) with its prompt bound to that Subtopic and
\* inserts no Domain or Subtopic row; and no step removes a Subtopic that
\* has no prompt, nor a Domain while none of its Subtopics has one.
C29_EmptyNodeIsFoundAgain ==
    [][/\ Resolved(resp') =>
             \A x \in EmptySubtopics(DB) :
                (/\ Lower(x.name) = Lower(RequestNames(resp').subtopic_name)
                 /\ \E d \in domains :
                       /\ d.id = x.domain_id
                       /\ Lower(d.name) = Lower(RequestNames(resp').domain_name)) =>
                   /\ resp'.status \in {200, 201}
                   /\ Ids(domains') = Ids(domains)
                   /\ Ids(subtopics') = Ids(subtopics)
                   /\ \E p \in prompts' : p.id = resp'.id /\ p.subtopic_id = x.id
       /\ EmptySubtopics(DB) \subseteq subtopics'
       /\ \A d \in domains :
             SubtopicsOf(DB, d.id) \subseteq EmptySubtopics(DB) => d \in domains']_vars

\* C30: an update answered 200 overwrites title, content, subtopic,
\* is_template and configurable_options of the prompt with the values of
\* the payload, false and null for the two keys the payload leaves out,
\* and keeps the prompt's id and the images it had.
C30_UpdateReplacesAllFields ==
    [][(resp'.op = "update" /\ resp'.status = 200) =>
          LET payload == resp'.request.payload
              fields == RequestNames(resp')
              after == PromptOf(DB', resp'.id)
          IN  /\ PromptExists(DB, resp'.id)
              /\ Cardinality({p \in prompts' : p.id = resp'.id}) = 1
              /\ after.title = payload.title.v
              /\ after.content = payload.content.v
              /\ after.is_template = fields.is_template
              /\ after.configurable_options = fields.configurable_options
              /\ payload.is_template = Absent => after.is_template = FALSE
              /\ payload.configurable_options = Absent =>
                    after.configurable_options = NoneVal
              /\ \E x \in subtopics' :
                    /\ x.id = after.subtopic_id
                    /\ x.name = payload.subtopic_name.v
                    /\ \E d \in domains' :
                          d.id = x.domain_id /\ d.name = payload.domain_name.v
              /\ ImagesOf(DB, resp'.id) \subseteq ImagesOf(DB', resp'.id)
              /\ Cardinality(ImagesOf(DB', resp'.id)) =
                    Cardinality(ImagesOf(DB, resp'.id)) + Len(Uploaded(resp'))]_vars

\* An update that sent neither is_template nor configurable_options gave a
\* prompt created with an image another title and Subtopic and reset the
\* two fields.
C30_Witness ==
    /\ resp.op = "update"
    /\ resp.status = 200
    /\ resp.request.payload.is_template = Absent
    /\ resp.request.payload.configurable_options = Absent
    /\ ImagesOf(DB, resp.id) # {}
    /\ PromptOf(DB, resp.id).title = <<98>>
    /\ PromptOf(DB, resp.id).is_template = FALSE
    /\ PromptOf(DB, resp.id).configurable_options = NoneVal

====
